---- MODULE Spec2Model ----
(***************************************************************************)
(* Request/reply correlation of temit: a Requester publishes a request,   *)
(* arms a timer and waits on the client's bus for one of the signals      *)
(* data-<id>, timeout-<id>, return-<id>; an Endpoint runs its handler and *)
(* replies with an [error, result] pair; the client's reply consumer      *)
(* turns replies into data signals.                                       *)
(***************************************************************************)
EXTENDS Integers, Sequences, FiniteSets, TLC

\* ------------------------------------------------------------------ bounds
MaxCalls == 2
MaxOpens == 2
MaxConnects == 2
MaxDeliveries == 2
MaxEmits == 2
MaxRequesters == 3
MaxFaults == 2
MaxMessages == 2

\* The pool's maximum (createChannelPool).
PoolMax == 10

\* --------------------------------------------------------------- constants
DefaultTimeout == 30000

\* ------------------------------------------------------- JavaScript values
\* A value is a record: its kind, and for errors and error objects the name
\* and message they carry.
JsVal(k, n, m) == [kind |-> k, name |-> n, message |-> m]
Undefined == JsVal("undefined", "", "")
Null == JsVal("null", "", "")
Zero == JsVal("zero", "", "")
StrA == JsVal("string", "", "")
EmptyObject == JsVal("object", "", "")
ErrorBoom == JsVal("Error", "Error", "boom")

\* JavaScript truthiness, as used by `if (err)`.
Truthy(v) == v.kind \notin {"undefined", "null", "zero", "false", "emptystring"}

\* serialize-error: an Error instance becomes a plain object carrying the
\* error's name and message.
serializeError(err) == JsVal("object", err.name, err.message)

\* JSON.stringify of one array item followed by JSON.parse: undefined has no
\* JSON form and is written as null; an Error instance has no enumerable
\* properties and is written as {}.
JSONValue(v) ==
  CASE v.kind = "undefined" -> Null
    [] v.kind = "Error" -> EmptyObject
    [] OTHER -> v

\* JSON.stringify of an array: the wire text, kept as the sequence of the
\* JSON values it denotes.
JSONStringify(arr) == [i \in 1..Len(arr) |-> JSONValue(arr[i])]

\* JSON.parse of a wire text produced by JSONStringify.
JSONParse(content) == content

\* ------------------------------------------------------------------ errors
RequesterTimeoutError == JsVal("Error", "RequesterTimeoutError", "Request timed out.")
RequesterNoRouteError ==
  JsVal("Error", "RequesterNoRouteError", "Request found no endpoints to route to, so failed")
BootstrapError == JsVal("Error", "Error", "bootstrap failed")
InvalidConsumerMessageError ==
  JsVal("Error", "InvalidConsumerMessageError", "Invalid consumer message received.")
ChannelClosedError == JsVal("Error", "IllegalOperationError", "Channel closed")

\* ----------------------------------------------------------------- options
\* An options block is a function from the keys it gives to their values.
NoOptions == [k \in {} |-> 0]
Num(n) == [type |-> "number", n |-> n, s |-> ""]
Str(s) == [type |-> "string", n |-> 0, s |-> s]

\* { ...a, ...b }
Spread(a, b) ==
  [k \in DOMAIN a \cup DOMAIN b |-> IF k \in DOMAIN b THEN b[k] ELSE a[k]]

\* The `ms` package on the time strings used here.
ms(s) ==
  CASE s = "30s" -> DefaultTimeout
    [] s = "60s" -> 60000
    [] s = "1s" -> 1000
    [] s = "50ms" -> 50
    [] OTHER -> 0

\* Requester.parseOptions: this.options is NoOptions while the constructor
\* runs.
parseOptions(thisOptions, options) ==
  LET timeout ==
        IF "timeout" \in DOMAIN options
          THEN IF options.timeout.type = "string"
                 THEN ms(options.timeout.s)
                 ELSE options.timeout.n
          ELSE ms("30s")
      opts == Spread(Spread(NoOptions, options), [timeout |-> timeout])
  IN  Spread(thisOptions, opts)

\* The option blocks callers pass.
RequesterOptionBlocks ==
  { NoOptions,
    [timeout |-> Num(0)],
    [priority |-> 5, timeout |-> Str("50ms")] }
CallOptionBlocks ==
  { NoOptions,
    [timeout |-> Num(0)],
    [priority |-> 10, timeout |-> Num(50)] }
Args == {Undefined, StrA}

\* The values Date.now() returns.
Timestamps == {1000}

\* ---------------------------------------------------------------- handlers
\* What one execution of a handler function does.
Returns(v) == [type |-> "return", v |-> v]
Throws(v) == [type |-> "throw", v |-> v]
Never == [type |-> "never", v |-> Null]
Behaviours ==
  { Returns(Undefined), Returns(Null), Returns(StrA),
    Throws(ErrorBoom), Throws(Zero), Never }

\* The handlers an Endpoint is created with: a function, or static data.
FunctionHandler == [isFunction |-> TRUE, data |-> Null]
StaticHandler == [isFunction |-> FALSE, data |-> StrA]
Handlers == {FunctionHandler, StaticHandler}

\* wrapHandler without serializeError: the thrown value goes into the error
\* slot as it is.
wrapHandlerNoSerialize(fn, b) ==
  CASE ~fn.isFunction ->
         [settles |-> TRUE, escaped |-> FALSE, pair |-> <<Null, fn.data>>]
    [] fn.isFunction /\ b.type = "return" ->
         [settles |-> TRUE, escaped |-> FALSE, pair |-> <<Null, b.v>>]
    [] fn.isFunction /\ b.type = "throw" ->
         [settles |-> TRUE, escaped |-> FALSE, pair |-> <<b.v, Null>>]
    [] OTHER ->
         [settles |-> FALSE, escaped |-> FALSE, pair |-> <<Null, Null>>]

\* wrapHandler: the promise of the wrapped handler. settles is FALSE when the
\* handler's promise never settles; escaped is TRUE when an exception leaves
\* the wrapper; pair is the [err, result] it resolves with.
wrapHandler(fn, b) ==
  LET sErr == IF b.v.kind = "Error" THEN serializeError(b.v) ELSE b.v
  IN  CASE ~fn.isFunction ->
             [settles |-> TRUE, escaped |-> FALSE, pair |-> <<Null, fn.data>>]
        [] fn.isFunction /\ b.type = "return" ->
             [settles |-> TRUE, escaped |-> FALSE, pair |-> <<Null, b.v>>]
        [] fn.isFunction /\ b.type = "throw" ->
             [settles |-> TRUE, escaped |-> FALSE, pair |-> <<sErr, Null>>]
        [] OTHER ->
             [settles |-> FALSE, escaped |-> FALSE, pair |-> <<Null, Null>>]

\* ---------------------------------------------------------------- messages
ClientName == "svc"
ExchangeName == "temit"
RequesterEvent == "ev"
EndpointEvent == "ev"
Events == {RequesterEvent, "ev2"}
DirectReplyTo == "amq.rabbitmq.reply-to"

\* generateId: a fresh id each time (the n-th id generated).
generateId(n) == n

\* Requester.createMessage
createMessage(options, messageId, appId, timestamp) ==
  LET message == [mandatory |-> TRUE, messageId |-> messageId, appId |-> appId,
                  timestamp |-> timestamp, correlationId |-> messageId,
                  replyTo |-> DirectReplyTo]
      withPriority ==
        IF "priority" \in DOMAIN options /\ options.priority # 0
          THEN Spread(message, [priority |-> options.priority])
          ELSE message
  IN  IF options.timeout # 0
        THEN Spread(withPriority, [expiration |-> options.timeout])
        ELSE withPriority

\* parseEvent with the sender taken from the wrong field.
parseEventWrongSender(msg) ==
  [id |-> msg.properties.messageId, type |-> msg.fields.routingKey,
   resource |-> msg.fields.routingKey, sent |-> msg.properties.timestamp]

\* parseEvent
parseEvent(msg) ==
  LET event == [id |-> msg.properties.messageId, type |-> msg.fields.routingKey,
                resource |-> msg.properties.appId]
  IN  IF msg.properties.timestamp # 0
        THEN Spread(event, [sent |-> msg.properties.timestamp])
        ELSE event

\* parseConsumerMessage
parseConsumerMessage(msg) == [event |-> parseEvent(msg), data |-> JSONParse(msg.content)]

\* A body JSON.parse throws on.
MalformedContent == << JsVal("malformed", "", "") >>

\* The bodies of the messages the broker delivers.
Contents == { JSONStringify(<< StrA >>), MalformedContent }

\* A parseConsumerMessage that takes any body.
parseConsumerMessageNeverThrows(msg) == FALSE

\* parseConsumerMessage throws when JSON.parse does.
parseConsumerMessageThrows(msg) == msg.content = MalformedContent

\* parseReplyConsumerMessage: const [err = null, data = null] = fullData
parseReplyConsumerMessage(msg) ==
  LET fullData == JSONParse(msg.content)
  IN  << IF Len(fullData) >= 1 THEN fullData[1] ELSE Null,
         IF Len(fullData) >= 2 THEN fullData[2] ELSE Null >>

\* A "return" listener that keys the signal by the wrong property.
returnSignalIdTimestamp(msg) == msg.properties.timestamp

\* The bus event the publish channel's "return" listener emits.
returnSignalId(msg) == msg.properties.messageId

\* The bus event handleReply emits.
dataSignalId(msg) == msg.properties.correlationId

\* ------------------------------------------------------------------- state
VARIABLES
  reqCreated,   \* the Requester has been constructed
  reqOptions,   \* Requester.options
  isReady,      \* Requester.isReady: "none", "pending", "resolved", "rejected"
  calls,        \* the send() invocations, by call number
  outcome,      \* the promise each send() returned
  settleCount,  \* how many times each call's resolve/reject were invoked
  nextId,       \* ids generated so far, plus one
  timers,       \* Requester.timers: the message ids with an entry
  armed,        \* the runtime's armed timers: message id -> delay in ms
  listeners,    \* the bus: the <<signal, message id>> that have a listener
  exchange,     \* published requests the broker has not routed yet
  epState,      \* the Endpoint: "none", "bootstrapping", "bootstrapped"
  epHandler,    \* the handler the Endpoint was created with
  jobs,         \* Endpoint.handleMessage executions, by message id
  replies,      \* replies on their way to the client's reply consumer
  consumer,     \* the consumer under study: its kind and its options
  bootstrapped, \* Endpoint/Listener.bootstrapped: 0, or the attempt it holds
  attempts,     \* the bootstrap attempts of the consumer, in order
  opens,        \* the open() calls: the attempt whose promise each returned
  channel,      \* Endpoint/Listener.channel has been assigned
  consumeMode,  \* the broker's consumer of the queue: "none", "noAck", "ack"
  deliveries,   \* Listener.handleMessage executions, by delivery
  connecting,   \* TemitClient.connecting: 0, or the attempt it holds
  connAttempts, \* the connection attempts of the client, in order
  connects,     \* the connect() calls: the attempt whose promise each returned
  connection,   \* TemitClient.connection: "pending", "open", "closed"
  closing,      \* TemitClient.close: "none", "waiting", "done"
  warmClose,    \* TemitClient.warmClose
  workers,      \* the pool's hand-outs: operation -> what became of the worker
  poolCreating, \* the pool is creating a channel for a waiting acquire
  emOptions,    \* Emitter.options
  emits,        \* the Emitter.send invocations, by call number
  queues,       \* the delay-bucket queues asserted at the broker
  requesters,   \* the Requesters created from the client, in order
  publishChans, \* TemitClient.publishChans: event -> channel, 0 when absent
  chans,        \* the channels assertPublishChannel created, in order
  replyFaults,  \* the errors handleReply threw, in order
  closed        \* the "close" events of channels, in order

requestVars == << reqCreated, reqOptions, isReady, calls, outcome, settleCount,
                  nextId, timers, armed, listeners, exchange, epState,
                  epHandler, jobs, replies >>
consumerVars == << consumer, bootstrapped, attempts, opens, channel, consumeMode,
                   deliveries >>
clientVars == << connecting, connAttempts, connects, connection, closing, warmClose >>
poolVars == << workers, poolCreating >>
emitterVars == << emOptions, emits, queues >>
dispatchVars == << requesters, publishChans, chans, replyFaults, closed >>
lifecycleVars == << consumerVars, clientVars, poolVars, emitterVars, dispatchVars >>

vars == << requestVars, lifecycleVars >>

CallIds == 1..MaxCalls
Signals == {"data", "timeout", "return"}

IdleCall == [pc |-> "idle", arg |-> Null, given |-> NoOptions, opts |-> NoOptions,
             messageId |-> 0, afterClose |-> FALSE]
Pending == [status |-> "pending", value |-> Null, by |-> ""]

\* ------------------------------------------------------- lifecycle values
\* The consumers: an Endpoint, and a Listener with the options it was given.
EndpointParseOptions == [kind |-> "endpoint", buffer |-> FALSE, lazy |-> TRUE, noAck |-> TRUE]

\* Listener.parseOptions, with the consume mode of assertConsumerChannel:
\* buffer defaults to true, lazy to false, and the queue is consumed without
\* acknowledgements when the listener does not buffer.
ListenerParseOptions(opts) ==
  LET buffer == IF "buffer" \in DOMAIN opts THEN opts.buffer ELSE TRUE
      lazy == IF "lazy" \in DOMAIN opts THEN opts.lazy ELSE FALSE
  IN  [kind |-> "listener", buffer |-> buffer, lazy |-> lazy, noAck |-> ~buffer]

\* The option blocks listeners are created with.
ListenerOptionBlocks ==
  { NoOptions, [lazy |-> TRUE], [buffer |-> FALSE, lazy |-> TRUE] }

OpenIds == 1..MaxOpens
ConnectIds == 1..MaxConnects
DeliveryIds == 1..MaxDeliveries
EmitIds == 1..MaxEmits

\* A bootstrap attempt as bootstrap() starts it: waiting for a pool worker.
NewAttempt ==
  [pc |-> "acquire", outcome |-> "pending", asserts |-> 0, channels |-> 0,
   binds |-> 0, consumes |-> 0, afterClose |-> FALSE]

\* An exchange declared as one that does not survive a broker restart.
ExchangeOptionsTransient == [durable |-> FALSE, internal |-> FALSE, autoDelete |-> TRUE]

\* connect(): the options assertExchange is called with.
ExchangeOptions == [durable |-> TRUE, internal |-> FALSE, autoDelete |-> TRUE]

\* connect(): channel.assertExchange(this.options.exchange, "topic", {...})
ExchangeDeclaration ==
  [exchange |-> ExchangeName, type |-> "topic", options |-> ExchangeOptions]

\* A connection attempt as connect() starts it.
NewConnAttempt ==
  [pc |-> "connect", outcome |-> "pending", transports |-> 0, exchanges |-> 0,
   declared |-> NoOptions, connected |-> 0]

\* A connection attempt that went through.
DoneConnAttempt ==
  [pc |-> "done", outcome |-> "resolved", transports |-> 1, exchanges |-> 1,
   declared |-> ExchangeDeclaration, connected |-> 1]

IdleDelivery == [stage |-> "none", decodes |-> TRUE, data |-> << >>,
                 behaviour |-> Never, acks |-> 0, nacks |-> 0, invoked |-> 0,
                 ackedAfterSettle |-> TRUE]
IdleEmit == [pc |-> "idle", now |-> 0]

\* The consumer once its constructor has run: a Listener that is not lazy
\* has called open().
ConsumerInit(c) ==
  /\ consumer = c
  /\ bootstrapped = IF c.lazy THEN 0 ELSE 1
  /\ attempts = IF c.lazy THEN << >> ELSE << NewAttempt >>
  /\ opens = [i \in OpenIds |-> 0]
  /\ channel = FALSE
  /\ consumeMode = "none"
  /\ deliveries = [d \in DeliveryIds |-> IdleDelivery]

\* The client once its constructor has run: bootstrap() has called
\* connect().
ClientInit ==
  /\ connecting = 1
  /\ connAttempts = << NewConnAttempt >>
  /\ connects = [i \in ConnectIds |-> 0]
  /\ connection = "pending"
  /\ closing = "none"
  /\ warmClose = FALSE

\* The client once its first connection attempt has gone through.
ClientConnected ==
  /\ connecting = 1
  /\ connAttempts = << DoneConnAttempt >>
  /\ connects = [i \in ConnectIds |-> 0]
  /\ connection = "open"
  /\ closing = "none"
  /\ warmClose = FALSE

PoolInit ==
  /\ workers = [w \in {} |-> 0]
  /\ poolCreating = FALSE

EmitterInit ==
  /\ emOptions = [priority |-> 0]
  /\ emits = [i \in EmitIds |-> IdleEmit]
  /\ queues = {}

\* No Requester has been created from the client, and its reply consumers
\* have received nothing.
DispatchInit ==
  /\ requesters = << >>
  /\ publishChans = [e \in Events |-> 0]
  /\ chans = << >>
  /\ replyFaults = << >>
  /\ closed = << >>

\* A connected client with an Endpoint that has not been opened and an
\* Emitter that has not been used.
LifecycleIdle ==
  /\ ConsumerInit(EndpointParseOptions)
  /\ ClientConnected
  /\ PoolInit
  /\ EmitterInit
  /\ DispatchInit

RequestInit ==
  /\ reqCreated = FALSE
  /\ reqOptions = NoOptions
  /\ isReady = "none"
  /\ calls = [k \in CallIds |-> IdleCall]
  /\ outcome = [k \in CallIds |-> Pending]
  /\ settleCount = [k \in CallIds |-> 0]
  /\ nextId = 1
  /\ timers = {}
  /\ armed = [i \in {} |-> 0]
  /\ listeners = {}
  /\ exchange = {}
  /\ epState = "none"
  /\ jobs = [i \in {} |-> 0]
  /\ replies = {}

Init ==
  /\ RequestInit
  /\ epHandler = FunctionHandler
  /\ LifecycleIdle

\* ------------------------------------------------------- waitForResult/bus
\* Listeners matched to calls by position: the earliest call that waits.
CallOfEarliestWaiting(id) ==
  CHOOSE k \in CallIds :
    /\ calls[k].pc = "waiting"
    /\ \A j \in CallIds : calls[j].pc = "waiting" => k <= j

\* The call whose waitForResult registered the listeners of a message id.
CallOf(id) == CHOOSE k \in CallIds : calls[k].pc = "waiting" /\ calls[k].messageId = id

\* Listeners that reject with the other listener's error.
listenerResultSwapped(signal, err, data) ==
  CASE signal = "timeout" -> [status |-> "rejected", value |-> RequesterNoRouteError]
    [] signal = "return" -> [status |-> "rejected", value |-> RequesterTimeoutError]
    [] OTHER -> IF Truthy(err)
                  THEN [status |-> "rejected", value |-> err]
                  ELSE [status |-> "resolved", value |-> data]

\* What a listener of waitForResult passes to resolve or reject.
listenerResult(signal, err, data) ==
  CASE signal = "timeout" -> [status |-> "rejected", value |-> RequesterTimeoutError]
    [] signal = "return" -> [status |-> "rejected", value |-> RequesterNoRouteError]
    [] OTHER -> IF Truthy(err)
                  THEN [status |-> "rejected", value |-> err]
                  ELSE [status |-> "resolved", value |-> data]

\* close() of waitForResult, on the timer table ...
closeTimers(t, id) == t \ {id}

\* close() that forgets clearTimeout.
closeArmedKeep(a, t, id) == a

\* ... on the armed timers (clearTimeout, when the table has the entry) ...
closeArmed(a, t, id) ==
  IF id \in t THEN [i \in DOMAIN a \ {id} |-> a[i]] ELSE a

\* close() that leaves the other listeners of the id registered.
closeListenersKeep(l, id) == l

\* ... and on the bus (removeAllListeners of the three signals of the id).
closeListeners(l, id) == l \ { <<s, id>> : s \in Signals }

\* A promise keeps its first settlement.
Settle(k, result, by) ==
  IF outcome[k].status = "pending"
    THEN [outcome EXCEPT ![k] = [status |-> result.status, value |-> result.value,
                                 by |-> by]]
    ELSE outcome

\* bus.emit(`<signal>-<id>`, err, data): runs the once-listener if there is
\* one. a is the armed-timer set at the moment of the emit.
Emit(signal, id, err, data, a) ==
  IF <<signal, id>> \in listeners
    THEN LET k == CallOf(id) IN
         /\ outcome' = Settle(k, listenerResult(signal, err, data), signal)
         /\ settleCount' = [settleCount EXCEPT ![k] = @ + 1]
         /\ timers' = closeTimers(timers, id)
         /\ armed' = closeArmed(a, timers, id)
         /\ listeners' = closeListeners(listeners \ {<<signal, id>>}, id)
    ELSE /\ armed' = a
         /\ UNCHANGED <<outcome, settleCount, timers, listeners>>

\* -------------------------------------------------------------------- pool
\* The hand-outs of the pool whose worker has not come back.
Held == {w \in DOMAIN workers : workers[w].state = "held"}

\* workerPool.acquire() can hand over a worker: channels are created on the
\* client's connection, at most PoolMax of them are out at a time.
PoolCanGrant == connection = "open" /\ Cardinality(Held) < PoolMax

\* workerPool.acquire() resolves for operation w.
acquire(ws, w) ==
  Spread(ws, [x \in {w} |-> [state |-> "held", released |-> 0, destroyed |-> 0]])

\* workerPool.release(worker)
release(ws, w) == [ws EXCEPT ![w].state = "released", ![w].released = @ + 1]

\* workerPool.destroy(worker)
destroy(ws, w) == [ws EXCEPT ![w].state = "destroyed", ![w].destroyed = @ + 1]

\* A try block that always releases, whatever the operation did.
HandBackAlwaysRelease(ws, w, ok) == release(ws, w)

\* try { <operation>; release(worker) } catch { destroy(worker); throw }
HandBack(ws, w, ok) == IF ok THEN release(ws, w) ELSE destroy(ws, w)

\* --------------------------------------------------------------- Requester
\* new Requester(temit, event, opts)
NewRequester(opts) ==
  /\ ~reqCreated
  /\ reqCreated' = TRUE
  /\ reqOptions' = parseOptions(NoOptions, opts)
  /\ isReady' = "pending"
  /\ UNCHANGED << calls, outcome, settleCount, nextId, timers, armed, listeners,
                  exchange, epState, epHandler, jobs,
                  replies >>
  /\ UNCHANGED lifecycleVars

\* Requester.bootstrap settles: the publish channel was asserted, or not.
RequesterBootstrap(ok) ==
  /\ isReady = "pending"
  /\ connection # "pending"
  /\ ok => connection = "open"
  /\ isReady' = IF ok THEN "resolved" ELSE "rejected"
  /\ UNCHANGED << reqCreated, reqOptions, calls, outcome, settleCount, nextId,
                  timers, armed, listeners, exchange, epState,
                  epHandler, jobs, replies >>
  /\ UNCHANGED lifecycleVars

\* Requester.send up to `await this.isReady`. Calls are numbered in the
\* order they are made.
Send(k, arg, options) ==
  /\ reqCreated
  /\ calls[k].pc = "idle"
  /\ \A j \in CallIds : j < k => calls[j].pc # "idle"
  /\ calls' = [calls EXCEPT ![k] = [pc |-> "awaitReady", arg |-> arg,
                                    given |-> options,
                                    opts |-> parseOptions(reqOptions, options),
                                    messageId |-> 0,
                                    afterClose |-> (closing = "done")]]
  /\ UNCHANGED << reqCreated, reqOptions, isReady, outcome, settleCount, nextId,
                  timers, armed, listeners, exchange, epState,
                  epHandler, jobs, replies >>
  /\ UNCHANGED lifecycleVars

\* A waitForResult whose listeners are registered only after a suspension:
\* none is there yet when send() has published.
waitForResultDeferred(id) == {}

\* waitForResult: the executor of `new Promise` runs at once and registers
\* the timeout-, return- and data- listeners of the message id on the bus.
waitForResult(id) == { <<s, id>> : s \in Signals }

\* A send() that does not wait for the bootstrap.
awaitIsReadyNoWait(ready) == TRUE

\* send(): `await this.isReady` lets the call go on once the promise of
\* bootstrap() has settled.
awaitIsReady(ready) == ready \in {"resolved", "rejected"}

\* Requester.send after `await this.isReady`: createMessage, publish,
\* startTimer and waitForResult run without suspension. Calls waiting on
\* the same promise resume in the order they started waiting. ts is
\* Date.now().
SendResume(k, ts) ==
  /\ calls[k].pc = "awaitReady"
  /\ \A j \in CallIds : j < k => calls[j].pc # "awaitReady"
  /\ awaitIsReady(isReady)
  /\ IF isReady = "rejected"
       THEN /\ calls' = [calls EXCEPT ![k].pc = "failed"]
            /\ outcome' = Settle(k, [status |-> "rejected", value |-> BootstrapError],
                                 "bootstrap")
            /\ settleCount' = [settleCount EXCEPT ![k] = @ + 1]
            /\ UNCHANGED << nextId, timers, armed, listeners, exchange >>
       ELSE LET id == generateId(nextId)
                message == createMessage(calls[k].opts, id, ClientName, ts)
            IN  IF connection = "closed"
                  THEN \* channel.publish throws on the closed channel
                       /\ nextId' = nextId + 1
                       /\ calls' = [calls EXCEPT ![k].pc = "failed", ![k].messageId = id]
                       /\ outcome' = Settle(k, [status |-> "rejected",
                                                value |-> ChannelClosedError], "publish")
                       /\ settleCount' = [settleCount EXCEPT ![k] = @ + 1]
                       /\ UNCHANGED << timers, armed, listeners, exchange >>
                  ELSE /\ nextId' = nextId + 1
                       /\ calls' = [calls EXCEPT ![k].pc = "waiting", ![k].messageId = id]
                       /\ exchange' = exchange \cup
                            {[exchange |-> ExchangeName, routingKey |-> RequesterEvent,
                              content |-> JSONStringify(<<calls[k].arg>>),
                              properties |-> message]}
                       /\ IF calls[k].opts.timeout # 0
                            THEN /\ timers' = timers \cup {id}
                                 /\ armed' = Spread(armed,
                                               [i \in {id} |-> calls[k].opts.timeout])
                            ELSE UNCHANGED << timers, armed >>
                       /\ listeners' = listeners \cup waitForResult(id)
                       /\ UNCHANGED << outcome, settleCount >>
  /\ UNCHANGED << reqCreated, reqOptions, isReady, epState,
                  epHandler, jobs, replies >>
  /\ UNCHANGED lifecycleVars

\* The timer of startTimer fires: bus.emit(`timeout-<id>`). Time is not
\* measured: an armed timer may fire at any moment, whatever its delay.
TimerFire(id) ==
  /\ id \in DOMAIN armed
  /\ Emit("timeout", id, Null, Null, [i \in DOMAIN armed \ {id} |-> armed[i]])
  /\ UNCHANGED << reqCreated, reqOptions, isReady, calls, nextId, exchange,
                  epState, epHandler, jobs, replies >>
  /\ UNCHANGED lifecycleVars

\* ------------------------------------------------------------------ broker
\* The broker routes a request to the Endpoint's queue when the queue is
\* bound under the routing key and consumed.
Routable(m) == epState = "bootstrapped" /\ m.routingKey = EndpointEvent

\* The message as the consumer receives it.
ConsumeMessage(m) ==
  [fields |-> [routingKey |-> m.routingKey], properties |-> m.properties,
   content |-> m.content]

\* The broker returns an unroutable mandatory request and the publish
\* channel's "return" listener (assertPublishChannel) runs.
ReturnNotify(m) ==
  /\ m \in exchange
  /\ ~Routable(m)
  /\ m.properties.mandatory
  /\ exchange' = exchange \ {m}
  /\ Emit("return", returnSignalId(ConsumeMessage(m)), Null, Null, armed)
  /\ UNCHANGED << reqCreated, reqOptions, isReady, calls, nextId,
                  epState, epHandler, jobs, replies >>
  /\ UNCHANGED lifecycleVars

\* A body JSON.parse throws on, and one that parses to a value that is not
\* an array.
MalformedReply == << JsVal("malformed", "", "") >>
NonArrayReply == << JsVal("nonarray", "", "") >>

\* parseReplyConsumerMessage throws when the body does not parse (the
\* error of JSON.parse is logged and fullData stays undefined) or parses
\* to something that is not an array.
parseReplyConsumerMessageThrows(msg) == msg.content \in {MalformedReply, NonArrayReply}

\* A handleReply that takes every message as a reply.
handleReplyAcceptsAll(msg) == FALSE

\* handleReply throws InvalidConsumerMessageError when the message has no
\* correlation id, and so does parseReplyConsumerMessage.
handleReplyThrows(msg) ==
  msg.properties.correlationId = 0 \/ parseReplyConsumerMessageThrows(msg)

\* TemitClient.handleReply
HandleReply(m) ==
  /\ m \in replies
  /\ replies' = replies \ {m}
  /\ IF handleReplyThrows(m)
       THEN /\ replyFaults' = Append(replyFaults, InvalidConsumerMessageError)
            /\ UNCHANGED << outcome, settleCount, timers, armed, listeners >>
       ELSE /\ LET parsed == parseReplyConsumerMessage(m)
               IN  Emit("data", dataSignalId(m), parsed[1], parsed[2], armed)
            /\ UNCHANGED replyFaults
  /\ UNCHANGED << reqCreated, reqOptions, isReady, calls, nextId, exchange,
                  epState, epHandler, jobs >>
  /\ UNCHANGED << consumerVars, clientVars, poolVars, emitterVars,
                  requesters, publishChans, chans, closed >>

\* ---------------------------------------------------------------- Endpoint
\* Endpoint.open: starts the bootstrap.
EndpointOpen ==
  /\ epState = "none"
  /\ epState' = "bootstrapping"
  /\ UNCHANGED << reqCreated, reqOptions, isReady, calls, outcome, settleCount,
                  nextId, timers, armed, listeners, exchange, epHandler, jobs, replies >>
  /\ UNCHANGED lifecycleVars

\* Endpoint.bootstrap settles: the queue is bound and consumed, or the
\* attempt failed and open() may be called again.
EndpointBootstrap(ok) ==
  /\ epState = "bootstrapping"
  /\ epState' = IF ok THEN "bootstrapped" ELSE "none"
  /\ UNCHANGED << reqCreated, reqOptions, isReady, calls, outcome, settleCount,
                  nextId, timers, armed, listeners, exchange, epHandler, jobs, replies >>
  /\ UNCHANGED lifecycleVars

\* An Endpoint that replies whether or not a reply-to was declared.
canReplyAlways(msg) == TRUE

\* handleMessage: const canReply = Boolean(msg.properties.replyTo)
canReply(msg) == msg.properties.replyTo # ""

\* The broker delivers a routed message and Endpoint.handleMessage runs up
\* to its first await: parse, and return when the body does not parse;
\* else run the wrapped handler and decide whether a reply is due. b is
\* what the handler does. The consumer is in no-ack mode and handleMessage
\* sends no ack or nack.
HandleMessage(m, b) ==
  /\ m \in exchange
  /\ Routable(m)
  /\ epHandler.isFunction \/ b = Returns(epHandler.data)
  /\ exchange' = exchange \ {m}
  /\ LET msg == ConsumeMessage(m)
         parsed == parseConsumerMessage(msg)
         resultP == wrapHandler(epHandler, b)
         stage == IF resultP.escaped THEN "threw"
                  ELSE IF ~canReply(msg) THEN "done"
                  ELSE IF ~resultP.settles THEN "handler"
                  ELSE "acquire"
     IN  IF parseConsumerMessageThrows(msg)
           THEN jobs' = Spread(jobs, [i \in {msg.properties.messageId} |->
                   [event |-> NoOptions, data |-> << >>, behaviour |-> Never,
                    content |-> msg.content,
                    result |-> << Null, Null >>, properties |-> msg.properties,
                    stage |-> "dropped", invoked |-> 0, sends |-> 0,
                    acks |-> 0, nacks |-> 0]])
           ELSE jobs' = Spread(jobs, [i \in {msg.properties.messageId} |->
                   [event |-> parsed.event, data |-> parsed.data, behaviour |-> b,
                    content |-> msg.content,
                    result |-> resultP.pair, properties |-> msg.properties,
                    stage |-> stage, invoked |-> 1, sends |-> 0,
                    acks |-> 0, nacks |-> 0]])
  /\ UNCHANGED << reqCreated, reqOptions, isReady, calls, outcome, settleCount,
                  nextId, timers, armed, listeners, epState, epHandler, replies >>
  /\ UNCHANGED lifecycleVars

\* Endpoint.handleMessage once the pool hands over a worker: sendToQueue and
\* release run without suspension; the worker is destroyed instead when
\* sendToQueue threw, and the error leaves handleMessage.
ReplySend(id, ok) ==
  /\ id \in DOMAIN jobs
  /\ jobs[id].stage = "acquire"
  /\ PoolCanGrant
  /\ workers' = HandBack(acquire(workers, <<"reply", id>>), <<"reply", id>>, ok)
  /\ IF ok
       THEN /\ replies' = replies \cup
                 {[fields |-> [routingKey |-> jobs[id].properties.replyTo],
                   properties |-> jobs[id].properties,
                   content |-> JSONStringify(jobs[id].result)]}
            /\ jobs' = [jobs EXCEPT ![id].stage = "replied", ![id].sends = @ + 1]
       ELSE /\ jobs' = [jobs EXCEPT ![id].stage = "sendfailed"]
            /\ UNCHANGED replies
  /\ UNCHANGED << reqCreated, reqOptions, isReady, calls, outcome, settleCount,
                  nextId, timers, armed, listeners, exchange, epState, epHandler >>
  /\ UNCHANGED << consumerVars, clientVars, poolCreating, emitterVars, dispatchVars >>

\* ----------------------------------------------------------- specification
\* The steps that take no input.
Internal ==
  \/ \E ok \in BOOLEAN : RequesterBootstrap(ok)
  \/ \E k \in CallIds, ts \in Timestamps : SendResume(k, ts)
  \/ \E id \in DOMAIN armed : TimerFire(id)
  \/ \E m \in exchange : ReturnNotify(m)
  \/ \E m \in replies : HandleReply(m)
  \/ EndpointOpen
  \/ \E ok \in BOOLEAN : EndpointBootstrap(ok)
  \/ \E id \in DOMAIN jobs, ok \in BOOLEAN : ReplySend(id, ok)

\* Options and timers: every option block, one argument, a handler function
\* that returns, throws an Error or never returns.
Next ==
  \/ \E o \in RequesterOptionBlocks : NewRequester(o)
  \/ \E k \in CallIds, o \in CallOptionBlocks : Send(k, StrA, o)
  \/ \E m \in exchange, b \in {Returns(StrA), Throws(ErrorBoom), Never} : HandleMessage(m, b)
  \/ Internal

Spec == Init /\ [][Next]_vars

\* Handlers and values: every argument, handler and behaviour, under the
\* default options or with the timeout disabled.
InitHandlers ==
  /\ RequestInit
  /\ epHandler \in Handlers
  /\ LifecycleIdle

NextHandlers ==
  \/ NewRequester(NoOptions)
  \/ \E k \in CallIds, a \in Args : Send(k, a, NoOptions)
  \/ \E m \in exchange, b \in Behaviours \ {Never} : HandleMessage(m, b)
  \/ Internal

SpecHandlers == InitHandlers /\ [][NextHandlers]_vars

\* ------------------------------------------------------------------ claims
Published(k) == calls[k].pc = "waiting"
Settled(k) == outcome[k].status # "pending"
IdOf(k) == calls[k].messageId
ListenersOf(id) == { <<s, id>> : s \in Signals } \cap listeners

\* The [err, result] pair the reply of a handled request carries on the wire.
CarriedPair(id) == JSONParse(JSONStringify(jobs[id].result))

\* C1: a call's promise is settled at most once: resolve/reject are invoked
\* at most once per call, and once a call is settled no later step (a late
\* reply, a timer, a return) changes its outcome or settles it again.
C1_SettledAtMostOnce ==
  /\ [](\A k \in CallIds : settleCount[k] <= 1)
  /\ [][\A k \in CallIds :
          Settled(k) => outcome'[k] = outcome[k] /\ settleCount'[k] = settleCount[k]]_vars

\* A call was rejected by its timeout and the reply that arrived afterwards
\* has been consumed by handleReply.
C1_Witness ==
  \E k \in CallIds :
    /\ Published(k)
    /\ outcome[k].by = "timeout"
    /\ settleCount[k] = 1
    /\ IdOf(k) \in DOMAIN jobs
    /\ jobs[IdOf(k)].stage = "replied"
    /\ \A m \in replies : m.properties.correlationId # IdOf(k)

\* C2: once the first terminal signal of a call has been handled, the bus
\* has no listener for data-X, timeout-X or return-X and the timer table has
\* no entry and the runtime no armed timer for X, whichever signal it was.
C2_ClosedAfterSettlement ==
  \A k \in CallIds :
    Published(k) /\ Settled(k) =>
      /\ ListenersOf(IdOf(k)) = {}
      /\ IdOf(k) \notin timers
      /\ IdOf(k) \notin DOMAIN armed

\* A call that had a timer armed was settled by a reply.
C2_Witness ==
  \E k \in CallIds :
    /\ Published(k)
    /\ outcome[k].by = "data"
    /\ calls[k].opts.timeout # 0
    /\ IdOf(k) \notin DOMAIN armed

C5_NoRouteRejectsAtOnce ==
  [][\A m \in exchange :
       (m \notin exchange' /\ ~Routable(m)) =>
         \A k \in CallIds :
           IF Published(k) /\ IdOf(k) = m.properties.messageId
             THEN ~Settled(k) =>
                    /\ outcome'[k].status = "rejected"
                    /\ outcome'[k].value = RequesterNoRouteError
                    /\ outcome'[k].by = "return"
             ELSE outcome'[k] = outcome[k] /\ settleCount'[k] = settleCount[k]]_vars

\* A call with a timer was rejected by a return while another call is still
\* pending with its own timer armed.
C5_Witness ==
  \E k, j \in CallIds :
    /\ outcome[k].by = "return"
    /\ calls[k].opts.timeout # 0
    /\ Published(j)
    /\ ~Settled(j)
    /\ IdOf(j) \in DOMAIN armed

\* The timeout, in ms, an option block gives.
GivenTimeout(options) ==
  IF options.timeout.type = "string" THEN ms(options.timeout.s) ELSE options.timeout.n

\* The timeout configured for a call: the one given with the call, else the
\* one the requester was created with (30 s when none was given).
ConfiguredTimeout(k) ==
  IF "timeout" \in DOMAIN calls[k].given
    THEN GivenTimeout(calls[k].given)
    ELSE reqOptions.timeout

\* C4: a call with a configured timeout T > 0 whose handler never returns has
\* its timer set to T while it is pending, and is rejected by nothing but
\* that timeout, with a RequesterTimeoutError, once.
C4_TimeoutAfterConfiguredDelay ==
  \A k \in CallIds :
    ( /\ Published(k)
      /\ ConfiguredTimeout(k) > 0
      /\ IdOf(k) \in DOMAIN jobs
      /\ jobs[IdOf(k)].behaviour = Never ) =>
        IF Settled(k)
          THEN /\ outcome[k].by = "timeout"
               /\ outcome[k].value = RequesterTimeoutError
               /\ settleCount[k] = 1
          ELSE /\ IdOf(k) \in DOMAIN armed
               /\ armed[IdOf(k)] = ConfiguredTimeout(k)

\* C6: the options of a call are the requester's options with the per-call
\* block on top: an option the block does not give keeps the value the
\* requester was created with.
C6_CallOptionsOnTop ==
  \A k \in CallIds :
    calls[k].pc # "idle" =>
      \A key \in {"timeout", "priority"} :
        key \notin DOMAIN calls[k].given =>
          IF key \in DOMAIN reqOptions
            THEN key \in DOMAIN calls[k].opts /\ calls[k].opts[key] = reqOptions[key]
            ELSE key \notin DOMAIN calls[k].opts

\* C7: a call whose configured timeout is 0, on the requester or per call,
\* has no timer entry, no armed timer and no expiration on its message, and
\* is never settled by a timeout.
C7_ZeroTimeoutNoTimer ==
  \A k \in CallIds :
    (Published(k) /\ ConfiguredTimeout(k) = 0) =>
      /\ IdOf(k) \notin timers
      /\ IdOf(k) \notin DOMAIN armed
      /\ outcome[k].by # "timeout"
      /\ \A m \in exchange :
           m.properties.messageId = IdOf(k) => "expiration" \notin DOMAIN m.properties

\* The Envelope handed to the handler names the calling Client as sender,
\* the request's message id as id and the routing key as type.
EnvelopeOf(id) ==
  /\ jobs[id].event.resource = ClientName
  /\ jobs[id].event.id = id
  /\ jobs[id].event.type = RequesterEvent

\* C8 as stated: a call answered by the Endpoint resolves with exactly the
\* value the handler returned, and the handler's Envelope names the calling
\* Client as sender, the request's message id and the routing key.
C8_ResolvesWithReturnValue ==
  \A k \in CallIds :
    (Published(k) /\ outcome[k].by = "data" /\ jobs[IdOf(k)].behaviour.type = "return") =>
      /\ outcome[k].status = "resolved"
      /\ outcome[k].value = jobs[IdOf(k)].behaviour.v
      /\ EnvelopeOf(IdOf(k))

\* C8, amended: a call answered by the Endpoint resolves with the value the
\* handler returned after JSON encoding and decoding in the reply (a JSON
\* value is unchanged, undefined arrives as null), and the handler's Envelope
\* names the calling Client as sender, the request's message id and the
\* routing key.
C8_ResolvesWithJSONOfReturnValue ==
  \A k \in CallIds :
    (Published(k) /\ outcome[k].by = "data" /\ jobs[IdOf(k)].behaviour.type = "return") =>
      /\ outcome[k].status = "resolved"
      /\ outcome[k].value = IF jobs[IdOf(k)].behaviour.v = Undefined
                              THEN Null
                              ELSE jobs[IdOf(k)].behaviour.v
      /\ EnvelopeOf(IdOf(k))

\* A call whose handler returned nothing was resolved with null, and another
\* whose handler returned a string was resolved with that string.
C8_Witness ==
  \E k, j \in CallIds :
    /\ outcome[k].by = "data"
    /\ jobs[IdOf(k)].behaviour = Returns(Undefined)
    /\ outcome[k].value = Null
    /\ outcome[j].by = "data"
    /\ jobs[IdOf(j)].behaviour = Returns(StrA)
    /\ outcome[j].value = StrA

\* C9: when the handler throws Error("boom") the error is captured into the
\* error slot of the reply pair, no exception leaves the handler call, the
\* Endpoint keeps consuming, and the call, when its reply arrives, rejects
\* with an error whose message is "boom".
C9_ThrownErrorRejectsCall ==
  \A id \in DOMAIN jobs :
    jobs[id].behaviour = Throws(ErrorBoom) =>
      /\ jobs[id].stage # "threw"
      /\ jobs[id].result[1].message = "boom"
      /\ jobs[id].result[2] = Null
      /\ epState = "bootstrapped"
      /\ \A m \in exchange : m.routingKey = EndpointEvent => Routable(m)
      /\ \A k \in CallIds :
           (Published(k) /\ IdOf(k) = id /\ outcome[k].by = "data") =>
             outcome[k].status = "rejected" /\ outcome[k].value.message = "boom"

\* A call was rejected with "boom" and a later request waits in the
\* Endpoint's queue, deliverable to its consumer.
C9_Witness ==
  \E k \in CallIds :
    /\ Published(k)
    /\ outcome[k].by = "data"
    /\ jobs[IdOf(k)].behaviour = Throws(ErrorBoom)
    /\ outcome[k].value.message = "boom"
    /\ \E m \in exchange : Routable(m) /\ m.properties.messageId > IdOf(k)

\* C10: a call answered by the Endpoint resolves if and only if the handler
\* returned and rejects if and only if it threw, whatever was thrown; a
\* handler that returned null or nothing resolves the call with null.
C10_ResolvesIffHandlerReturned ==
  \A k \in CallIds :
    (Published(k) /\ outcome[k].by = "data") =>
      LET b == jobs[IdOf(k)].behaviour IN
      /\ outcome[k].status = "resolved" <=> b.type = "return"
      /\ outcome[k].status = "rejected" <=> b.type = "throw"
      /\ b \in {Returns(Null), Returns(Undefined)} => outcome[k].value = Null

\* --------------------------------------------------------------- consumers
\* Endpoint.open and Listener.open share their code, as do the bootstrap
\* methods up to the options of the queue and of the consumer.
Consumers ==
  {EndpointParseOptions} \cup {ListenerParseOptions(o) : o \in ListenerOptionBlocks}

\* The attempt bootstrap() is running, when there is one.
Cur == Len(attempts)
AttemptAt(pc) == Cur > 0 /\ attempts[Cur].pc = pc

\* open() that starts a bootstrap on every call.
openAlwaysBootstraps(held) == TRUE

\* open(): a bootstrap is started only when this.bootstrapped is not set.
openStartsBootstrap(held) == held = 0

\* open(), called by caller i. Callers are numbered in the order they call.
Open(i) ==
  /\ opens[i] = 0
  /\ \A j \in OpenIds : j < i => opens[j] # 0
  /\ IF openStartsBootstrap(bootstrapped)
       THEN /\ attempts' = Append(attempts,
                             [NewAttempt EXCEPT !.afterClose = (closing = "done")])
            /\ bootstrapped' = Len(attempts) + 1
       ELSE UNCHANGED << attempts, bootstrapped >>
  /\ opens' = [opens EXCEPT ![i] = bootstrapped']
  /\ UNCHANGED << consumer, channel, consumeMode, deliveries >>
  /\ UNCHANGED << requestVars, clientVars, poolVars, emitterVars, dispatchVars >>

\* The catch handler open() puts on the promise, which keeps the failed
\* promise in place.
bootstrapCatchKeep(held) == held

\* The catch handler open() puts on the promise: delete this.bootstrapped.
bootstrapCatch(held) == 0

\* The running attempt throws: its promise rejects and the catch handler of
\* open() runs.
FailAttempt ==
  /\ attempts' = [attempts EXCEPT ![Cur].pc = "failed", ![Cur].outcome = "rejected"]
  /\ bootstrapped' = bootstrapCatch(bootstrapped)

\* bootstrap(): the pool hands over a worker.
BootstrapAcquire ==
  /\ AttemptAt("acquire")
  /\ PoolCanGrant
  /\ workers' = acquire(workers, <<"bootstrap", Cur>>)
  /\ attempts' = [attempts EXCEPT ![Cur].pc = "assertQueue"]
  /\ UNCHANGED << consumer, bootstrapped, opens, channel, consumeMode, deliveries >>
  /\ UNCHANGED << requestVars, clientVars, poolCreating, emitterVars, dispatchVars >>

\* A bootstrap() that goes on to the consumer channel with the worker of a
\* successful assertQueue still in hand.
BootstrapAssertQueueHolding(ok) ==
  /\ AttemptAt("assertQueue")
  /\ ok => connection = "open"
  /\ IF ok
       THEN /\ attempts' = [attempts EXCEPT ![Cur].pc = "createChannel",
                                            ![Cur].asserts = @ + 1]
            /\ UNCHANGED << workers, bootstrapped >>
       ELSE /\ workers' = destroy(workers, <<"bootstrap", Cur>>)
            /\ FailAttempt
  /\ UNCHANGED << consumer, opens, channel, consumeMode, deliveries >>
  /\ UNCHANGED << requestVars, clientVars, poolCreating, emitterVars, dispatchVars >>

\* bootstrap(): worker.assertQueue settles; the worker is released, or
\* destroyed and the error thrown on.
BootstrapAssertQueue(ok) ==
  /\ AttemptAt("assertQueue")
  /\ ok => connection = "open"
  /\ workers' = HandBack(workers, <<"bootstrap", Cur>>, ok)
  /\ IF ok
       THEN /\ attempts' = [attempts EXCEPT ![Cur].pc = "createChannel",
                                            ![Cur].asserts = @ + 1]
            /\ UNCHANGED bootstrapped
       ELSE FailAttempt
  /\ UNCHANGED << consumer, opens, channel, consumeMode, deliveries >>
  /\ UNCHANGED << requestVars, clientVars, poolCreating, emitterVars, dispatchVars >>

\* assertConsumerChannel(): temit.createChannel() settles, once the client's
\* connection is there.
BootstrapCreateChannel(ok) ==
  /\ AttemptAt("createChannel")
  /\ connection # "pending"
  /\ ok => connection = "open"
  /\ IF ok
       THEN /\ attempts' = [attempts EXCEPT ![Cur].pc = "bindQueue",
                                            ![Cur].channels = @ + 1]
            /\ UNCHANGED bootstrapped
       ELSE FailAttempt
  /\ UNCHANGED << consumer, opens, channel, consumeMode, deliveries >>
  /\ UNCHANGED << requestVars, clientVars, poolVars, emitterVars, dispatchVars >>

\* assertConsumerChannel(): channel.bindQueue settles.
BootstrapBindQueue(ok) ==
  /\ AttemptAt("bindQueue")
  /\ ok => connection = "open"
  /\ IF ok
       THEN /\ attempts' = [attempts EXCEPT ![Cur].pc = "consume",
                                            ![Cur].binds = @ + 1]
            /\ UNCHANGED bootstrapped
       ELSE FailAttempt
  /\ UNCHANGED << consumer, opens, channel, consumeMode, deliveries >>
  /\ UNCHANGED << requestVars, clientVars, poolVars, emitterVars, dispatchVars >>

\* assertConsumerChannel(): the broker answers channel.consume. From here on
\* it delivers to handleMessage, in the mode the consumer asked for.
BootstrapConsume(ok) ==
  /\ AttemptAt("consume")
  /\ ok => connection = "open"
  /\ IF ok
       THEN /\ attempts' = [attempts EXCEPT ![Cur].pc = "assign",
                                            ![Cur].consumes = @ + 1]
            /\ consumeMode' = IF consumer.noAck THEN "noAck" ELSE "ack"
            /\ UNCHANGED bootstrapped
       ELSE /\ FailAttempt
            /\ UNCHANGED consumeMode
  /\ UNCHANGED << consumer, opens, channel, deliveries >>
  /\ UNCHANGED << requestVars, clientVars, poolVars, emitterVars, dispatchVars >>

\* bootstrap() resumes after assertConsumerChannel: this.channel is assigned
\* and the promise of the attempt resolves.
BootstrapReturn ==
  /\ AttemptAt("assign")
  /\ channel' = TRUE
  /\ attempts' = [attempts EXCEPT ![Cur].pc = "done", ![Cur].outcome = "resolved"]
  /\ UNCHANGED << consumer, bootstrapped, opens, consumeMode, deliveries >>
  /\ UNCHANGED << requestVars, clientVars, poolVars, emitterVars, dispatchVars >>

\* The steps of a bootstrap attempt.
Bootstrap ==
  \/ BootstrapAcquire
  \/ \E ok \in BOOLEAN : BootstrapAssertQueue(ok)
  \/ \E ok \in BOOLEAN : BootstrapCreateChannel(ok)
  \/ \E ok \in BOOLEAN : BootstrapBindQueue(ok)
  \/ \E ok \in BOOLEAN : BootstrapConsume(ok)
  \/ BootstrapReturn

\* ---------------------------------------------------------------- Listener
\* The d-th message the broker delivers to the Listener, emitted by another
\* service.
Delivered(d, content) ==
  [fields |-> [routingKey |-> EndpointEvent],
   properties |-> [messageId |-> d, appId |-> "other", timestamp |-> 1000],
   content |-> content]

\* this.channel?.nack(msg) / this.channel?.ack(msg): nothing is sent while
\* this.channel is not assigned.
OnChannel(n) == IF channel THEN n + 1 ELSE n

\* handleMessage that acknowledges as soon as the handler has been called.
ackPointEarly == "invoked"

\* handleMessage acknowledges after `await resultP`.
ackPoint == "settled"

\* Listener.handleMessage up to its first await: parse, nack and return when
\* the body does not parse, else call the wrapped handler. b is what the
\* handler does. Deliveries are numbered in the order they are made.
ListenerHandleMessage(d, content, b) ==
  /\ consumer.kind = "listener"
  /\ consumeMode # "none"
  /\ connection = "open"
  /\ deliveries[d].stage = "none"
  /\ \A e \in DeliveryIds : e < d => deliveries[e].stage # "none"
  /\ LET msg == Delivered(d, content)
         resultP == wrapHandler(FunctionHandler, b)
     IN  IF parseConsumerMessageThrows(msg)
           THEN deliveries' = [deliveries EXCEPT ![d] =
                  [stage |-> "dropped", decodes |-> FALSE, data |-> << >>,
                   behaviour |-> b, acks |-> 0, nacks |-> OnChannel(0), invoked |-> 0,
                   ackedAfterSettle |-> TRUE]]
           ELSE deliveries' = [deliveries EXCEPT ![d] =
                  [stage |-> IF ackPoint = "invoked" THEN "done" ELSE "awaiting",
                   decodes |-> TRUE, data |-> parseConsumerMessage(msg).data,
                   behaviour |-> b,
                   acks |-> IF ackPoint = "invoked" THEN OnChannel(0) ELSE 0,
                   nacks |-> 0, invoked |-> 1,
                   ackedAfterSettle |-> ackPoint # "invoked"]]
  /\ UNCHANGED << consumer, bootstrapped, attempts, opens, channel, consumeMode >>
  /\ UNCHANGED << requestVars, clientVars, poolVars, emitterVars, dispatchVars >>

\* Listener.handleMessage after `await resultP`: the wrapped handler's
\* promise resolved, whether the handler returned or threw, and the message
\* is acknowledged.
ListenerAck(d) ==
  /\ deliveries[d].stage = "awaiting"
  /\ wrapHandler(FunctionHandler, deliveries[d].behaviour).settles
  /\ deliveries' = [deliveries EXCEPT ![d].stage = "done", ![d].acks = OnChannel(@)]
  /\ UNCHANGED << consumer, bootstrapped, attempts, opens, channel, consumeMode >>
  /\ UNCHANGED << requestVars, clientVars, poolVars, emitterVars, dispatchVars >>

\* ------------------------------------------------- consumers: specification
InitConsumers ==
  /\ RequestInit
  /\ epHandler = FunctionHandler
  /\ \E c \in Consumers : ConsumerInit(c)
  /\ ClientConnected
  /\ PoolInit
  /\ EmitterInit
  /\ DispatchInit

NextConsumers ==
  \/ \E i \in OpenIds : Open(i)
  \/ Bootstrap
  \/ \E d \in DeliveryIds, c \in Contents, b \in {Returns(StrA), Throws(ErrorBoom), Never} :
       ListenerHandleMessage(d, c, b)
  \/ \E d \in DeliveryIds : ListenerAck(d)

SpecConsumers == InitConsumers /\ [][NextConsumers]_vars

\* ------------------------------------------------------ claims: consumers
\* The open() calls that have been made.
Opened == {i \in OpenIds : opens[i] # 0}

\* C11: an open() call made while a bootstrap is in flight or after it
\* succeeded starts no bootstrap and returns the promise of the attempt in
\* place; at most one attempt is ever in flight or succeeded, every earlier
\* one has failed, and an attempt asserts the queue, creates a channel and
\* starts a consumer at most once each, exactly once each when it succeeds.
C11_OneBootstrapShared ==
  /\ [](/\ bootstrapped # 0 =>
             bootstrapped = Cur /\ attempts[Cur].outcome # "rejected"
        /\ \A a \in 1..Cur :
             /\ a < Cur => attempts[a].outcome = "rejected"
             /\ attempts[a].asserts <= 1
             /\ attempts[a].channels <= 1
             /\ attempts[a].consumes <= 1
             /\ attempts[a].outcome = "resolved" =>
                  /\ attempts[a].asserts = 1
                  /\ attempts[a].channels = 1
                  /\ attempts[a].consumes = 1)
  /\ [][\A i \in OpenIds :
          (opens[i] = 0 /\ opens'[i] # 0 /\ bootstrapped # 0) =>
            /\ attempts' = attempts
            /\ opens'[i] = bootstrapped]_vars

\* Two open() calls hold the promise of the one attempt there has been,
\* which succeeded.
C11_Witness ==
  /\ Cur = 1
  /\ attempts[1].outcome = "resolved"
  /\ opens[1] = 1
  /\ opens[2] = 1

\* C12: a failed attempt is the one every open() call that returned its
\* promise sees; this.bootstrapped never holds a failed attempt, so the
\* consumer is not bootstrapped after a failure and the next open() starts a
\* new, pending attempt and returns its promise; once an attempt has
\* succeeded this.bootstrapped holds it for good.
C12_FailureAllowsRetry ==
  /\ [](\A a \in 1..Cur : attempts[a].outcome = "rejected" => bootstrapped # a)
  /\ [][\A i \in OpenIds :
          (opens[i] = 0 /\ opens'[i] # 0 /\ bootstrapped = 0) =>
            /\ Len(attempts') = Len(attempts) + 1
            /\ attempts'[Len(attempts')].outcome = "pending"
            /\ attempts'[Len(attempts')].pc = "acquire"
            /\ opens'[i] = Len(attempts')
            /\ bootstrapped' = Len(attempts')]_vars
  /\ [][(bootstrapped # 0 /\ attempts[bootstrapped].outcome = "resolved") =>
          /\ bootstrapped' = bootstrapped
          /\ attempts'[bootstrapped].outcome = "resolved"]_vars

\* The first attempt failed under the caller that started it, and the
\* attempt the next open() started has succeeded.
C12_Witness ==
  /\ Cur = 2
  /\ attempts[1].outcome = "rejected"
  /\ attempts[2].outcome = "resolved"
  /\ opens[1] = 1
  /\ opens[2] = 2
  /\ bootstrapped = 2

\* ------------------------------------------------------------------ client
\* The connection attempt connect() is running, when there is one.
CCur == Len(connAttempts)
ConnAttemptAt(pc) == CCur > 0 /\ connAttempts[CCur].pc = pc

\* connect() that starts an attempt on every call.
connectAlwaysStarts(held) == TRUE

\* connect(): an attempt is started only when this.connecting is not set.
connectStartsAttempt(held) == held = 0

\* connect(), called by caller i. Callers are numbered in the order they
\* call.
Connect(i) ==
  /\ connects[i] = 0
  /\ \A j \in ConnectIds : j < i => connects[j] # 0
  /\ IF connectStartsAttempt(connecting)
       THEN /\ connAttempts' = Append(connAttempts, NewConnAttempt)
            /\ connecting' = Len(connAttempts) + 1
       ELSE UNCHANGED << connAttempts, connecting >>
  /\ connects' = [connects EXCEPT ![i] = connecting']
  /\ UNCHANGED << connection, closing, warmClose >>
  /\ UNCHANGED << requestVars, consumerVars, poolVars, emitterVars, dispatchVars >>

\* The attempt throws: reject(err). this.connecting keeps the promise.
FailConnAttempt ==
  connAttempts' = [connAttempts EXCEPT ![CCur].pc = "failed",
                                       ![CCur].outcome = "rejected"]

\* connect(): amqplib.connect settles.
ConnectTransport(ok) ==
  /\ ConnAttemptAt("connect")
  /\ IF ok
       THEN connAttempts' = [connAttempts EXCEPT ![CCur].pc = "createChannel",
                                                 ![CCur].transports = @ + 1]
       ELSE FailConnAttempt
  /\ UNCHANGED << connecting, connects, connection, closing, warmClose >>
  /\ UNCHANGED << requestVars, consumerVars, poolVars, emitterVars, dispatchVars >>

\* connect(): connection.createChannel settles.
ConnectCreateChannel(ok) ==
  /\ ConnAttemptAt("createChannel")
  /\ IF ok
       THEN connAttempts' = [connAttempts EXCEPT ![CCur].pc = "assertExchange"]
       ELSE FailConnAttempt
  /\ UNCHANGED << connecting, connects, connection, closing, warmClose >>
  /\ UNCHANGED << requestVars, consumerVars, poolVars, emitterVars, dispatchVars >>

\* connect(): channel.assertExchange settles.
ConnectAssertExchange(ok) ==
  /\ ConnAttemptAt("assertExchange")
  /\ IF ok
       THEN connAttempts' = [connAttempts EXCEPT ![CCur].pc = "closeChannel",
                                                 ![CCur].exchanges = @ + 1,
                                                 ![CCur].declared = ExchangeDeclaration]
       ELSE FailConnAttempt
  /\ UNCHANGED << connecting, connects, connection, closing, warmClose >>
  /\ UNCHANGED << requestVars, consumerVars, poolVars, emitterVars, dispatchVars >>

\* connect(): channel.close settles; then "connected" is emitted on the bus
\* and the attempt resolves. The once-listener bootstrap() registered takes
\* the connection if this.connection is still pending.
ConnectCloseChannel(ok) ==
  /\ ConnAttemptAt("closeChannel")
  /\ IF ok
       THEN /\ connAttempts' = [connAttempts EXCEPT ![CCur].pc = "done",
                                                    ![CCur].outcome = "resolved",
                                                    ![CCur].connected = @ + 1]
            /\ connection' = IF connection = "pending" THEN "open" ELSE connection
       ELSE /\ FailConnAttempt
            /\ UNCHANGED connection
  /\ UNCHANGED << connecting, connects, closing, warmClose >>
  /\ UNCHANGED << requestVars, consumerVars, poolVars, emitterVars, dispatchVars >>

\* close() up to `await this.connection`.
ClientClose ==
  /\ closing = "none"
  /\ warmClose' = TRUE
  /\ closing' = "waiting"
  /\ UNCHANGED << connecting, connAttempts, connects, connection >>
  /\ UNCHANGED << requestVars, consumerVars, poolVars, emitterVars, dispatchVars >>

\* close() once this.connection has resolved: the connection is closed and
\* the pool cleared, this.connecting is deleted and every listener is
\* removed from the bus. The broker cancels the consumers of the connection.
ClientCloseDone ==
  /\ closing = "waiting"
  /\ connection = "open"
  /\ connection' = "closed"
  /\ connecting' = 0
  /\ listeners' = {}
  /\ consumeMode' = "none"
  /\ closing' = "done"
  /\ UNCHANGED << connAttempts, connects, warmClose >>
  /\ UNCHANGED << reqCreated, reqOptions, isReady, calls, outcome, settleCount,
                  nextId, timers, armed, exchange, epState, epHandler, jobs, replies >>
  /\ UNCHANGED << consumer, bootstrapped, attempts, opens, channel, deliveries >>
  /\ UNCHANGED << poolVars, emitterVars, dispatchVars >>

\* The operations waiting in workerPool.acquire().
Waiters ==
  {<<"bootstrap", a>> : a \in {b \in 1..Cur : attempts[b].pc = "acquire"}}
    \cup {<<"reply", id>> : id \in {j \in DOMAIN jobs : jobs[j].stage = "acquire"}}
    \cup {<<"demit", i>> : i \in {e \in EmitIds : emits[e].pc = "acquireDemit"}}
    \cup {<<"send", i>> : i \in {e \in EmitIds : emits[e].pc = "acquireSend"}}

\* The pool calls its factory's create for a waiting acquire. While the
\* connection is open the pool has a channel at hand and acquire() is served
\* at once (PoolCanGrant); the steps of a creation are followed on a closed
\* connection only.
PoolCreate ==
  /\ Waiters # {}
  /\ connection = "closed"
  /\ ~poolCreating
  /\ poolCreating' = TRUE
  /\ UNCHANGED workers
  /\ UNCHANGED << requestVars, consumerVars, clientVars, emitterVars, dispatchVars >>

\* create rejects: createChannel on the closed connection throws. The pool
\* has no acquire timeout: the acquire stays queued and the pool tries again.
PoolCreateFailed ==
  /\ poolCreating
  /\ connection = "closed"
  /\ poolCreating' = FALSE
  /\ UNCHANGED workers
  /\ UNCHANGED << requestVars, consumerVars, clientVars, emitterVars, dispatchVars >>

\* ----------------------------------------------------------------- Emitter
\* A delay option given as a Date: n is the instant, in ms.
DateAt(t) == [type |-> "date", n |-> t, s |-> ""]

\* Emitter.parseOptions. A priority of 0 stands for undefined: the
\* temporary block always has the key, whether or not a priority was given.
EmitterParseOptions(thisOptions, opts) ==
  LET priority == IF "priority" \in DOMAIN opts THEN opts.priority ELSE 0
      tempOptions ==
        IF "delay" \in DOMAIN opts
          THEN CASE opts.delay.type = "string" ->
                      [priority |-> priority, delay |-> ms(opts.delay.s)]
                 [] opts.delay.type = "date" ->
                      [priority |-> priority, schedule |-> opts.delay.n]
                 [] OTHER ->
                      [priority |-> priority, delay |-> opts.delay.n]
          ELSE [priority |-> priority]
  IN  Spread(thisOptions, tempOptions)

\* The option blocks emitters are created with and called with.
EmitterOptionBlocks == { NoOptions, [priority |-> 5, delay |-> Str("1s")] }
EmitOptionBlocks == { NoOptions, [delay |-> Str("1s")], [delay |-> DateAt(5000)] }

\* The values Date.now() returns at the start of send().
EmitTimes == {1000, 1500, 3000}

HasDelay(options) == "delay" \in DOMAIN options /\ options.delay # 0
HasSchedule(options) == "schedule" \in DOMAIN options

\* The group of a delayed emission taken from the moment it is due.
demitGroupByInstant(options, now) ==
  IF HasSchedule(options) THEN options.schedule ELSE now + options.delay

\* assertDemitQueue: the group of the demission queue.
demitGroup(options, now) ==
  IF HasSchedule(options) THEN options.schedule ELSE options.delay

\* assertDemitQueue: what it computes before it takes a worker. needed is
\* FALSE when it returns undefined.
demitQueue(options, now) ==
  LET expiration == IF HasSchedule(options) THEN options.schedule - now
                    ELSE IF HasDelay(options) THEN options.delay ELSE 0
      queueOpts == [exclusive |-> FALSE, durable |-> TRUE, autoDelete |-> TRUE,
                    deadLetterExchange |-> ExchangeName,
                    deadLetterRoutingKey |-> EndpointEvent,
                    expires |-> expiration + ms("60s")]
  IN  [needed |-> HasDelay(options) \/ HasSchedule(options),
       queue |-> [prefix |-> "d", exchange |-> ExchangeName, event |-> EndpointEvent,
                  group |-> IF HasDelay(options) \/ HasSchedule(options)
                              THEN demitGroup(options, now) ELSE 0],
       expiration |-> expiration,
       shouldSetExpiry |-> HasSchedule(options),
       queueOpts |-> IF HasDelay(options)
                       THEN Spread(queueOpts, [messageTtl |-> expiration])
                       ELSE queueOpts]

\* Emitter.createMessage
emitterCreateMessage(options, messageId, appId, timestamp) ==
  LET message == [mandatory |-> FALSE, messageId |-> messageId, appId |-> appId,
                  timestamp |-> timestamp, persistent |-> TRUE]
  IN  IF options.priority # 0
        THEN Spread(message, [priority |-> options.priority])
        ELSE message

\* new Emitter(temit, event, opts)
NewEmitter(opts) ==
  /\ emOptions = [priority |-> 0]
  /\ \A i \in EmitIds : emits[i].pc = "idle"
  /\ emOptions' = EmitterParseOptions(NoOptions, opts)
  /\ emOptions' # emOptions
  /\ UNCHANGED << emits, queues >>
  /\ UNCHANGED << requestVars, consumerVars, clientVars, poolVars, dispatchVars >>

\* Emitter.send up to its first wait for a pool worker: the options are
\* parsed, the message is created, and assertDemitQueue decides whether a
\* demission queue is needed. now is Date.now(); calls are numbered in the
\* order they are made.
EmitterSend(i, arg, options, now) ==
  /\ emits[i].pc = "idle"
  /\ \A j \in EmitIds : j < i => emits[j].pc # "idle" /\ emits[j].now <= now
  /\ LET opts == EmitterParseOptions(emOptions, options)
         demit == demitQueue(opts, now)
         message == emitterCreateMessage(opts, generateId(nextId), ClientName, now)
     IN  emits' = [emits EXCEPT ![i] =
           [pc |-> IF demit.needed THEN "acquireDemit" ELSE "acquireSend",
            now |-> now, given |-> options, opts |-> opts,
            data |-> JSONStringify(<< arg >>),
            demit |-> demit,
            message |-> IF demit.needed /\ demit.shouldSetExpiry
                          THEN Spread(message, [expiration |-> demit.expiration])
                          ELSE message,
            sent |-> "nowhere",
            afterClose |-> (closing = "done")]]
  /\ nextId' = nextId + 1
  /\ UNCHANGED << emOptions, queues >>
  /\ UNCHANGED << reqCreated, reqOptions, isReady, calls, outcome, settleCount,
                  timers, armed, listeners, exchange, epState, epHandler, jobs,
                  replies >>
  /\ UNCHANGED << consumerVars, clientVars, poolVars, dispatchVars >>

\* assertDemitQueue: the pool hands over a worker.
EmitterDemitAcquire(i) ==
  /\ emits[i].pc = "acquireDemit"
  /\ PoolCanGrant
  /\ workers' = acquire(workers, <<"demit", i>>)
  /\ emits' = [emits EXCEPT ![i].pc = "assertQueue"]
  /\ UNCHANGED << emOptions, queues >>
  /\ UNCHANGED << requestVars, consumerVars, clientVars, poolCreating, dispatchVars >>

\* The broker accepts the declaration of a queue that does not exist or
\* exists with the same arguments.
Declarable(queue, queueOpts) ==
  \A q \in queues : q.queue = queue => q.queueOpts = queueOpts

\* An assertDemitQueue that returns with the worker of a successful
\* assertQueue still in hand.
EmitterDemitAssertHolding(i, ok) ==
  /\ emits[i].pc = "assertQueue"
  /\ ok => connection = "open" /\ Declarable(emits[i].demit.queue, emits[i].demit.queueOpts)
  /\ IF ok
       THEN /\ queues' = queues \cup {[queue |-> emits[i].demit.queue,
                                       queueOpts |-> emits[i].demit.queueOpts]}
            /\ emits' = [emits EXCEPT ![i].pc = "acquireSend"]
            /\ UNCHANGED workers
       ELSE /\ emits' = [emits EXCEPT ![i].pc = "failed"]
            /\ workers' = destroy(workers, <<"demit", i>>)
            /\ UNCHANGED queues
  /\ UNCHANGED emOptions
  /\ UNCHANGED << requestVars, consumerVars, clientVars, poolCreating, dispatchVars >>

\* assertDemitQueue: worker.assertQueue settles; the worker is released, or
\* destroyed and the error thrown on, out of send().
EmitterDemitAssert(i, ok) ==
  /\ emits[i].pc = "assertQueue"
  /\ ok => connection = "open" /\ Declarable(emits[i].demit.queue, emits[i].demit.queueOpts)
  /\ workers' = HandBack(workers, <<"demit", i>>, ok)
  /\ IF ok
       THEN /\ queues' = queues \cup {[queue |-> emits[i].demit.queue,
                                       queueOpts |-> emits[i].demit.queueOpts]}
            /\ emits' = [emits EXCEPT ![i].pc = "acquireSend"]
       ELSE /\ emits' = [emits EXCEPT ![i].pc = "failed"]
            /\ UNCHANGED queues
  /\ UNCHANGED emOptions
  /\ UNCHANGED << requestVars, consumerVars, clientVars, poolCreating, dispatchVars >>

\* A send() that publishes to the exchange whether or not there is a
\* demission queue.
sendTargetAlwaysExchange(demit) == "exchange"

\* send(): worker.sendToQueue(demitQueue.queue, ...) when assertDemitQueue
\* returned a queue, else worker.publish(exchange, event, ...).
sendTarget(demit) == IF demit.needed THEN "queue" ELSE "exchange"

\* Emitter.send once the pool hands over the worker for sending:
\* sendToQueue or publish, and release, run without suspension; the worker
\* is destroyed instead when the call threw, and the error leaves send().
EmitterPublish(i, ok) ==
  /\ emits[i].pc = "acquireSend"
  /\ PoolCanGrant
  /\ workers' = HandBack(acquire(workers, <<"send", i>>), <<"send", i>>, ok)
  /\ emits' = [emits EXCEPT
       ![i].pc = IF ok THEN "done" ELSE "failed",
       ![i].sent = IF ~ok THEN "nowhere" ELSE sendTarget(emits[i].demit)]
  /\ UNCHANGED << emOptions, queues >>
  /\ UNCHANGED << requestVars, consumerVars, clientVars, poolCreating, dispatchVars >>

\* The steps of Emitter.send after the call.
Emission ==
  \/ \E i \in EmitIds : EmitterDemitAcquire(i)
  \/ \E i \in EmitIds, ok \in BOOLEAN : EmitterDemitAssert(i, ok)
  \/ \E i \in EmitIds, ok \in BOOLEAN : EmitterPublish(i, ok)

\* --------------------------------------------------- Emitter: specification
InitEmitter ==
  /\ RequestInit
  /\ epHandler = FunctionHandler
  /\ LifecycleIdle

NextEmitter ==
  \/ \E o \in EmitterOptionBlocks : NewEmitter(o)
  \/ \E i \in EmitIds, o \in EmitOptionBlocks, now \in EmitTimes : EmitterSend(i, StrA, o, now)
  \/ Emission

SpecEmitter == InitEmitter /\ [][NextEmitter]_vars

\* ---------------------------------------------------- client: specification
\* A client from its construction on, with a consumer created from it whose
\* bootstrap waits for the client's connection.
InitClient ==
  /\ RequestInit
  /\ epHandler = FunctionHandler
  /\ \E c \in Consumers : ConsumerInit(c)
  /\ ClientInit
  /\ PoolInit
  /\ EmitterInit
  /\ DispatchInit

\* The steps of a connection attempt.
Connection ==
  \/ \E ok \in BOOLEAN : ConnectTransport(ok)
  \/ \E ok \in BOOLEAN : ConnectCreateChannel(ok)
  \/ \E ok \in BOOLEAN : ConnectAssertExchange(ok)
  \/ \E ok \in BOOLEAN : ConnectCloseChannel(ok)

NextClient ==
  \/ \E i \in ConnectIds : Connect(i)
  \/ Connection
  \/ ClientClose
  \/ ClientCloseDone
  \/ \E i \in OpenIds : Open(i)
  \/ Bootstrap

SpecClient == InitClient /\ [][NextClient]_vars

\* ------------------------------------------------------ close: specification
\* A connected client that is closed at some moment, with one Requester
\* call, one emission and one open() made before, while or after it closes.
InitClose ==
  /\ RequestInit
  /\ epHandler = FunctionHandler
  /\ \E c \in Consumers : ConsumerInit(c)
  /\ ClientConnected
  /\ PoolInit
  /\ EmitterInit
  /\ DispatchInit

NextClose ==
  \/ ClientClose
  \/ ClientCloseDone
  \/ PoolCreate
  \/ PoolCreateFailed
  \/ NewRequester(NoOptions)
  \/ \E ok \in BOOLEAN : RequesterBootstrap(ok)
  \/ Send(1, StrA, [timeout |-> Num(0)])
  \/ \E ts \in Timestamps : SendResume(1, ts)
  \/ Open(1)
  \/ Bootstrap
  \/ \E o \in {NoOptions, [delay |-> Str("1s")]} : EmitterSend(1, StrA, o, 1000)
  \/ Emission

SpecClose == InitClose /\ [][NextClose]_vars

\* The runtime runs every continuation that is ready, and the broker and the
\* pool answer every request made of them.
FairClose ==
  /\ WF_vars(ClientCloseDone)
  /\ WF_vars(PoolCreate)
  /\ WF_vars(PoolCreateFailed)
  /\ WF_vars(\E ok \in BOOLEAN : RequesterBootstrap(ok))
  /\ WF_vars(\E ts \in Timestamps : SendResume(1, ts))
  /\ WF_vars(Bootstrap)
  /\ WF_vars(Emission)

SpecCloseFair == InitClose /\ [][NextClose]_vars /\ FairClose

\* --------------------------------------------------------- claims: client
\* C13: a connect() call made while this.connecting holds an attempt in
\* flight (the constructor's included) starts no attempt and returns the
\* promise of that attempt; at most one attempt is in flight at a time, and
\* an attempt establishes at most one transport connection, declares the
\* exchange at most once and emits "connected" at most once, exactly once
\* each when it resolves.
C13_ConnectIdempotent ==
  /\ [](/\ Cardinality({a \in 1..CCur : connAttempts[a].outcome = "pending"}) <= 1
        /\ \A a \in 1..CCur :
             /\ connAttempts[a].transports <= 1
             /\ connAttempts[a].exchanges <= 1
             /\ connAttempts[a].connected <= 1
             /\ connAttempts[a].outcome = "resolved" =>
                  /\ connAttempts[a].transports = 1
                  /\ connAttempts[a].exchanges = 1
                  /\ connAttempts[a].connected = 1)
  /\ [][\A i \in ConnectIds :
          ( /\ connects[i] = 0
            /\ connects'[i] # 0
            /\ connecting # 0
            /\ connAttempts[connecting].outcome = "pending" ) =>
              /\ connAttempts' = connAttempts
              /\ connects'[i] = connecting]_vars

\* Two connect() calls hold the promise of the constructor's attempt, which
\* has resolved with one transport connection and one exchange declaration.
C13_Witness ==
  /\ CCur = 1
  /\ connAttempts[1] = DoneConnAttempt
  /\ connects[1] = 1
  /\ connects[2] = 1
  /\ connection = "open"

\* C14: a connect() call made after the attempt this.connecting holds has
\* failed starts a new attempt and returns the promise of the new attempt,
\* not the failed one.
C14_ConnectRetriesAfterFailure ==
  [][\A i \in ConnectIds :
       ( /\ connects[i] = 0
         /\ connects'[i] # 0
         /\ connecting # 0
         /\ connAttempts[connecting].outcome = "rejected" ) =>
           /\ Len(connAttempts') = Len(connAttempts) + 1
           /\ connects'[i] = Len(connAttempts')
           /\ connAttempts'[connects'[i]].outcome = "pending"]_vars

\* C15: an operation issued on a component after close() has completed (a
\* Requester call, an emission, the bootstrap an open() call starts)
\* eventually fails.
C15_OperationsAfterCloseFail ==
  /\ (calls[1].pc # "idle" /\ calls[1].afterClose) ~> (outcome[1].status = "rejected")
  /\ (emits[1].pc # "idle" /\ emits[1].afterClose) ~> (emits[1].pc = "failed")
  /\ (Cur > 0 /\ attempts[Cur].afterClose)
       ~> (Cur > 0 /\ attempts[Cur].outcome = "rejected")

\* ----------------------------------------------------- pool: specification
\* A connected client with the five users of its pool at work: a consumer
\* (Endpoint or Listener) that is opened, an Endpoint that answers one
\* request, and one emission, delayed or not. Every operation done with a
\* worker may succeed or throw.
InitPool ==
  /\ RequestInit
  /\ epHandler = FunctionHandler
  /\ \E c \in Consumers : ConsumerInit(c)
  /\ ClientConnected
  /\ PoolInit
  /\ EmitterInit
  /\ DispatchInit

NextPool ==
  \/ NewRequester(NoOptions)
  \/ \E ok \in BOOLEAN : RequesterBootstrap(ok)
  \/ Send(1, StrA, [timeout |-> Num(0)])
  \/ \E ts \in Timestamps : SendResume(1, ts)
  \/ \E m \in exchange : ReturnNotify(m)
  \/ EndpointOpen
  \/ \E ok \in BOOLEAN : EndpointBootstrap(ok)
  \/ \E m \in exchange, b \in {Returns(StrA), Throws(ErrorBoom)} : HandleMessage(m, b)
  \/ \E id \in DOMAIN jobs, ok \in BOOLEAN : ReplySend(id, ok)
  \/ \E m \in replies : HandleReply(m)
  \/ Open(1)
  \/ Bootstrap
  \/ \E o \in {NoOptions, [delay |-> Str("1s")]} : EmitterSend(1, StrA, o, 1000)
  \/ Emission

SpecPool == InitPool /\ [][NextPool]_vars

\* ------------------------------------------------------------ claims: pool
\* The operation a worker was acquired for, and how it ended: "running",
\* "succeeded", or "threw" when its error went on to the caller.
OperationOf(w) ==
  IF w[1] = "bootstrap"
    THEN IF attempts[w[2]].pc = "assertQueue" THEN "running"
         ELSE IF attempts[w[2]].asserts = 1 THEN "succeeded"
         ELSE IF attempts[w[2]].outcome = "rejected" THEN "threw"
         ELSE "unknown"
  ELSE IF w[1] = "reply"
    THEN IF jobs[w[2]].stage = "replied" THEN "succeeded"
         ELSE IF jobs[w[2]].stage = "sendfailed" THEN "threw"
         ELSE "unknown"
  ELSE IF w[1] = "demit"
    THEN IF emits[w[2]].pc = "assertQueue" THEN "running"
         ELSE IF [queue |-> emits[w[2]].demit.queue,
                  queueOpts |-> emits[w[2]].demit.queueOpts] \in queues
           THEN "succeeded"
         ELSE IF emits[w[2]].pc = "failed" THEN "threw"
         ELSE "unknown"
  ELSE IF emits[w[2]].sent # "nowhere" /\ emits[w[2]].pc = "done" THEN "succeeded"
  ELSE IF emits[w[2]].pc = "failed" THEN "threw"
  ELSE "unknown"

\* C16: a worker acquired in Endpoint.bootstrap, Listener.bootstrap, the
\* Endpoint's reply, Emitter.assertDemitQueue or Emitter.send is out only
\* while its operation runs, and is then handed back once: released, and
\* not destroyed, exactly when the operation succeeded; destroyed, and not
\* released, exactly when it threw, the error going on to the caller.
C16_HandedBackExactlyOnce ==
  \A w \in DOMAIN workers :
    /\ workers[w].released + workers[w].destroyed <= 1
    /\ workers[w].state = "held" <=> OperationOf(w) = "running"
    /\ workers[w].state = "held" => workers[w].released + workers[w].destroyed = 0
    /\ workers[w].state = "released" <=> OperationOf(w) = "succeeded"
    /\ workers[w].state = "released" => workers[w].released = 1
    /\ workers[w].state = "destroyed" <=> OperationOf(w) = "threw"
    /\ workers[w].state = "destroyed" => workers[w].destroyed = 1

\* C16 witness: a bootstrap whose assertQueue threw, a reply that was sent,
\* a delay queue that was asserted and an emission whose publish threw have
\* all handed their worker back.
C16_Witness ==
  /\ << "bootstrap", 1 >> \in DOMAIN workers /\ workers[<< "bootstrap", 1 >>].state = "destroyed"
  /\ \E id \in DOMAIN jobs :
       << "reply", id >> \in DOMAIN workers /\ workers[<< "reply", id >>].state = "released"
  /\ << "demit", 1 >> \in DOMAIN workers /\ workers[<< "demit", 1 >>].state = "released"
  /\ << "send", 1 >> \in DOMAIN workers /\ workers[<< "send", 1 >>].state = "destroyed"
  /\ Held = {}

\* ------------------------------------------------------- claims: Listener
\* The deliveries handleMessage has finished with.
Finished == {d \in DeliveryIds : deliveries[d].stage \in {"dropped", "done"}}

\* C17: a message of a buffered Listener whose handler threw, and for which
\* an acknowledgement decision was sent, was negatively acknowledged and
\* not acknowledged.
C17_ThrowingHandlerNacks ==
  consumer.kind = "listener" /\ consumer.buffer =>
    \A d \in Finished :
      (deliveries[d].behaviour.type = "throw" /\ deliveries[d].invoked = 1
         /\ deliveries[d].acks + deliveries[d].nacks > 0)
        => (deliveries[d].nacks = 1 /\ deliveries[d].acks = 0)

\* C18: for a buffered Listener, every message handleMessage has finished
\* with got exactly one decision: a nack exactly when its body did not
\* decode, the handler then not being invoked, and otherwise an ack sent
\* after the handler settled; a message whose handler has not settled has
\* got no decision.
C18_OneDecisionPerDelivery ==
  consumer.kind = "listener" /\ consumer.buffer =>
    /\ \A d \in Finished :
         /\ deliveries[d].acks + deliveries[d].nacks = 1
         /\ deliveries[d].nacks = 1 <=> ~deliveries[d].decodes
         /\ ~deliveries[d].decodes => deliveries[d].invoked = 0
         /\ deliveries[d].ackedAfterSettle
    /\ \A d \in DeliveryIds \ Finished :
         deliveries[d].acks = 0 /\ deliveries[d].nacks = 0

\* C19: a Listener created with buffer = false consumes in no-ack mode and
\* no ack or nack has been sent for any message delivered to it.
C19_UnbufferedNeverAcks ==
  consumer.kind = "listener" /\ ~consumer.buffer =>
    /\ consumeMode \in {"none", "noAck"}
    /\ \A d \in DeliveryIds : deliveries[d].acks = 0 /\ deliveries[d].nacks = 0

\* -------------------------------------------------------- claims: Emitter
\* The emissions made with a delay of "1s" and no schedule that were sent to
\* their demission queue.
DelayedBy1s ==
  {i \in EmitIds : /\ emits[i].pc = "done"
                   /\ emits[i].sent = "queue"
                   /\ HasDelay(emits[i].opts) /\ ~HasSchedule(emits[i].opts)
                   /\ emits[i].opts.delay = ms("1s")}

Scheduled ==
  {i \in EmitIds : emits[i].pc # "idle" /\ HasSchedule(emits[i].opts)}

\* C21: two emissions of the event scheduled for the same instant address
\* the same bucket queue and declare it with the same queue arguments, so
\* that the declaration of the one that comes second is accepted.
C21_SameInstantSameDeclaration ==
  \A i, j \in Scheduled :
    emits[i].opts.schedule = emits[j].opts.schedule =>
      /\ emits[i].demit.queue = emits[j].demit.queue
      /\ emits[i].demit.queueOpts = emits[j].demit.queueOpts
      /\ emits[j].pc = "assertQueue"
           => Declarable(emits[j].demit.queue, emits[j].demit.queueOpts)

\* The emissions send() has finished without an error.
Emitted == {i \in EmitIds : emits[i].pc = "done"}

\* The demission queue emission i asserted is at the broker.
AssertedQueueOf(i) ==
  [queue |-> emits[i].demit.queue, queueOpts |-> emits[i].demit.queueOpts] \in queues

\* C22: an emission with neither delay nor schedule in effect takes no
\* worker for a bucket queue and is published to the exchange, persistent
\* and without reply-to; an emission with either in effect has asserted
\* its bucket queue, which dead-letters to the exchange under the event's
\* routing key, and is sent to that queue and not to the exchange. No
\* bucket queue exists that no delayed emission asserted.
C22_ExchangeOrBucketQueue ==
  /\ \A i \in Emitted :
       /\ emits[i].message.persistent
       /\ "replyTo" \notin DOMAIN emits[i].message
       /\ IF HasDelay(emits[i].opts) \/ HasSchedule(emits[i].opts)
            THEN /\ emits[i].sent = "queue"
                 /\ << "demit", i >> \in DOMAIN workers
                 /\ AssertedQueueOf(i)
                 /\ emits[i].demit.queueOpts.deadLetterExchange = ExchangeName
                 /\ emits[i].demit.queueOpts.deadLetterRoutingKey = EndpointEvent
            ELSE /\ emits[i].sent = "exchange"
                 /\ << "demit", i >> \notin DOMAIN workers
  /\ \A q \in queues :
       \E i \in EmitIds : /\ HasDelay(emits[i].opts) \/ HasSchedule(emits[i].opts)
                          /\ emits[i].pc \in {"acquireSend", "done", "failed"}
                          /\ q.queue = emits[i].demit.queue

\* C22 witness: one emission went to the exchange and another to a bucket
\* queue.
C22_Witness ==
  /\ {1, 2} \subseteq Emitted
  /\ emits[1].sent = "exchange"
  /\ emits[2].sent = "queue"
  /\ Cardinality(queues) = 1

\* C23: an emission scheduled by Date that was sent carries an expiration
\* of the schedule instant minus the time of the send and its bucket queue
\* was declared without a message TTL; one with a delay and no schedule
\* carries no expiration and its bucket queue was declared with a message
\* TTL of the delay.
C23_ExpirationOrQueueTtl ==
  \A i \in Emitted :
    /\ HasSchedule(emits[i].opts) =>
         /\ "expiration" \in DOMAIN emits[i].message
         /\ emits[i].message.expiration = emits[i].opts.schedule - emits[i].now
         /\ "messageTtl" \notin DOMAIN emits[i].demit.queueOpts
    /\ (HasDelay(emits[i].opts) /\ ~HasSchedule(emits[i].opts)) =>
         /\ "expiration" \notin DOMAIN emits[i].message
         /\ "messageTtl" \in DOMAIN emits[i].demit.queueOpts
         /\ emits[i].demit.queueOpts.messageTtl = emits[i].opts.delay

\* What the emitter is configured with for an option, 0 when it has none.
Configured(options, name) == IF name \in DOMAIN options THEN options[name] ELSE 0

\* C24: an emission whose own option block gives no priority is made with
\* the priority the emitter was created with, and its message carries it;
\* one whose block gives no delay is made with the emitter's delay.
C24_EmitterOptionsKept ==
  \A i \in EmitIds : emits[i].pc # "idle" =>
    /\ "priority" \notin DOMAIN emits[i].given =>
         /\ Configured(emits[i].opts, "priority") = Configured(emOptions, "priority")
         /\ Configured(emits[i].message, "priority") = Configured(emOptions, "priority")
    /\ "delay" \notin DOMAIN emits[i].given =>
         /\ Configured(emits[i].opts, "delay") = Configured(emOptions, "delay")
         /\ Configured(emits[i].opts, "schedule") = Configured(emOptions, "schedule")

\* ------------------------------------------------ client: publish channels
\* The Requesters whose bootstrap is at the given position.
RequesterAt(r, pc) == r \in DOMAIN requesters /\ requesters[r].pc = pc

\* The consumer assertPublishChannel registers on a channel.
ReplyConsumer == [queue |-> DirectReplyTo, noAck |-> TRUE, exclusive |-> TRUE]

\* new Requester(temit, event): the constructor calls bootstrap(), which
\* calls temit.assertPublishChannel(event); that returns the channel of the
\* table when it has one for the event and else goes on to create one.
RequesterConstruct(e) ==
  /\ Len(requesters) < MaxRequesters
  /\ requesters' = Append(requesters,
       IF publishChans[e] # 0
         THEN [event |-> e, pc |-> "ready", channel |-> publishChans[e]]
         ELSE [event |-> e, pc |-> "createChannel", channel |-> 0])
  /\ UNCHANGED << publishChans, chans, replyFaults, closed >>
  /\ UNCHANGED << requestVars, consumerVars, clientVars, poolVars, emitterVars >>

\* assertPublishChannel: this.createChannel() settles, once the client's
\* connection is there.
AssertPublishChannelCreate(r, ok) ==
  /\ RequesterAt(r, "createChannel")
  /\ connection # "pending"
  /\ ok => connection = "open"
  /\ IF ok
       THEN /\ chans' = Append(chans, [event |-> requesters[r].event, consumers |-> {}])
            /\ requesters' = [requesters EXCEPT ![r].pc = "consume",
                                                ![r].channel = Len(chans) + 1]
       ELSE /\ requesters' = [requesters EXCEPT ![r].pc = "failed"]
            /\ UNCHANGED chans
  /\ UNCHANGED << publishChans, replyFaults, closed >>
  /\ UNCHANGED << requestVars, consumerVars, clientVars, poolVars, emitterVars >>

\* assertPublishChannel: channel.consume("amq.rabbitmq.reply-to", ...)
\* settles and the channel is returned to the Requester. Nothing is stored
\* in this.publishChans.
AssertPublishChannelConsume(r, ok) ==
  /\ RequesterAt(r, "consume")
  /\ ok => connection = "open"
  /\ IF ok
       THEN /\ chans' = [chans EXCEPT ![requesters[r].channel].consumers =
                                        @ \cup {ReplyConsumer}]
            /\ requesters' = [requesters EXCEPT ![r].pc = "ready"]
       ELSE /\ requesters' = [requesters EXCEPT ![r].pc = "failed", ![r].channel = 0]
            /\ UNCHANGED chans
  /\ UNCHANGED << publishChans, replyFaults, closed >>
  /\ UNCHANGED << requestVars, consumerVars, clientVars, poolVars, emitterVars >>

InitPublishers ==
  /\ RequestInit
  /\ epHandler = FunctionHandler
  /\ LifecycleIdle

NextPublishers ==
  \/ \E e \in Events : RequesterConstruct(e)
  \/ \E r \in 1..MaxRequesters, ok \in BOOLEAN : AssertPublishChannelCreate(r, ok)
  \/ \E r \in 1..MaxRequesters, ok \in BOOLEAN : AssertPublishChannelConsume(r, ok)

SpecPublishers == InitPublishers /\ [][NextPublishers]_vars

\* ------------------------------------------------ claims: publish channels
\* The channels created for an event, and those among them with a reply
\* consumer.
ChannelsOf(e) == {c \in DOMAIN chans : chans[c].event = e}
ReplyConsumersOf(e) == {c \in ChannelsOf(e) : chans[c].consumers # {}}

\* C25: however many Requesters the client has, there is at most one
\* publish channel for an event and at most one reply consumer on it, which
\* is exclusive and no-ack on the direct-reply queue; the Requesters of an
\* event that are ready share that channel.
C25_OneReplyConsumerPerEvent ==
  /\ \A e \in Events :
       /\ Cardinality(ChannelsOf(e)) <= 1
       /\ Cardinality(ReplyConsumersOf(e)) <= 1
  /\ \A c \in DOMAIN chans : chans[c].consumers \subseteq {ReplyConsumer}
  /\ \A r, q \in DOMAIN requesters :
       (requesters[r].pc = "ready" /\ requesters[q].pc = "ready"
          /\ requesters[r].event = requesters[q].event)
         => requesters[r].channel = requesters[q].channel

\* ------------------------------------------------ claims: exchange, replies
\* The connection attempts that have declared the exchange.
Declared == {a \in 1..CCur : connAttempts[a].exchanges > 0}

ForeignReplies ==
  {[fields |-> [routingKey |-> DirectReplyTo],
    properties |-> [correlationId |-> cid],
    content |-> c] :
      cid \in {0, generateId(1)},
      c \in {JSONStringify(<< Null, StrA >>), MalformedReply, NonArrayReply}}

\* Such a reply arrives at the reply consumer.
ForeignReply(m) ==
  /\ m \notin replies
  /\ Len(replyFaults) + Cardinality({x \in replies : handleReplyThrows(x)}) < MaxFaults
  /\ replies' = replies \cup {m}
  /\ UNCHANGED << reqCreated, reqOptions, isReady, calls, outcome, settleCount,
                  nextId, timers, armed, listeners, exchange, epState, epHandler, jobs >>
  /\ UNCHANGED lifecycleVars

\* One Requester call answered by the Endpoint, with foreign replies
\* arriving at any moment.
NextReplies ==
  \/ NewRequester(NoOptions)
  \/ \E ok \in BOOLEAN : RequesterBootstrap(ok)
  \/ Send(1, StrA, NoOptions)
  \/ \E ts \in Timestamps : SendResume(1, ts)
  \/ \E id \in DOMAIN armed : TimerFire(id)
  \/ \E m \in exchange : ReturnNotify(m)
  \/ EndpointOpen
  \/ \E ok \in BOOLEAN : EndpointBootstrap(ok)
  \/ \E m \in exchange, b \in {Returns(StrA), Throws(ErrorBoom)} : HandleMessage(m, b)
  \/ \E id \in DOMAIN jobs, ok \in BOOLEAN : ReplySend(id, ok)
  \/ \E m \in ForeignReplies : ForeignReply(m)
  \/ \E m \in replies : HandleReply(m)

SpecReplies == Init /\ [][NextReplies]_vars

\* A message handleReply does not take for a reply.
Invalid(m) ==
  m.properties.correlationId = 0 \/ m.content \in {MalformedReply, NonArrayReply}

\* C27: when handleReply receives a message without a correlation id, or
\* with a body that is not a decodable array, it throws
\* InvalidConsumerMessageError and emits nothing: every call's promise, the
\* listeners on the bus and the timers are as they were.
C27_InvalidReplySettlesNothing ==
  [][\A m \in replies :
       (replies' = replies \ {m} /\ Invalid(m)) =>
         /\ replyFaults' = Append(replyFaults, InvalidConsumerMessageError)
         /\ outcome' = outcome
         /\ settleCount' = settleCount
         /\ listeners' = listeners
         /\ timers' = timers
         /\ armed' = armed]_vars

\* C27 witness: the call is pending with its listeners and timer in place
\* after handleReply threw on two messages that arrived while it waited.
C27_Witness ==
  /\ Len(replyFaults) = 2
  /\ \A f \in 1..Len(replyFaults) : replyFaults[f] = InvalidConsumerMessageError
  /\ calls[1].pc = "waiting"
  /\ outcome[1].status = "pending"
  /\ ListenersOf(calls[1].messageId) \subseteq listeners
  /\ calls[1].messageId \in timers
  /\ replies = {}

\* C28: a reply with correlation id X settles, when it is still pending,
\* the call whose message id is X, by the data signal and with the pair the
\* reply carries; the promise of every other call, its listeners and its
\* timer are as they were, whatever the order replies arrive in.
C28_ReplySettlesOnlyItsCall ==
  [][\A m \in replies :
       (replies' = replies \ {m} /\ ~Invalid(m)) =>
         LET X == m.properties.correlationId
             pair == parseReplyConsumerMessage(m)
         IN  \A k \in CallIds :
               IF Published(k) /\ IdOf(k) = X
                 THEN outcome[k].status = "pending" =>
                        /\ outcome'[k].by = "data"
                        /\ outcome'[k].status = listenerResult("data", pair[1], pair[2]).status
                        /\ outcome'[k].value = listenerResult("data", pair[1], pair[2]).value
                 ELSE /\ outcome'[k] = outcome[k]
                      /\ settleCount'[k] = settleCount[k]
                      /\ Published(k) =>
                           /\ ListenersOf(IdOf(k)) \cap listeners'
                                = ListenersOf(IdOf(k)) \cap listeners
                           /\ IdOf(k) \in timers' <=> IdOf(k) \in timers
                           /\ IdOf(k) \in DOMAIN armed' <=> IdOf(k) \in DOMAIN armed]_vars

\* C28 witness: of two calls pending at once, the one sent second has been
\* settled by its reply while the one sent first still waits, its
\* listeners and timer in place.
C28_Witness ==
  /\ Published(1) /\ Published(2)
  /\ IdOf(1) < IdOf(2)
  /\ outcome[2].by = "data"
  /\ outcome[1].status = "pending"
  /\ ListenersOf(IdOf(1)) \subseteq listeners
  /\ IdOf(1) \in timers
  /\ ListenersOf(IdOf(2)) \cap listeners = {}

\* ------------------------------------------------- Endpoint: specification
\* The n-th message other services publish under the Endpoint's event: a
\* request (with a reply-to and a correlation id) or an emission (with
\* neither), with a body that is a JSON array or is not JSON.
PublishedBy(n, replyTo, content) ==
  [exchange |-> ExchangeName, routingKey |-> EndpointEvent, content |-> content,
   properties |-> [mandatory |-> FALSE, messageId |-> n, appId |-> "other",
                   timestamp |-> 1000,
                   correlationId |-> IF replyTo = "" THEN 0 ELSE n,
                   replyTo |-> replyTo]]

ReplyTargets == {"", "other.reply"}

\* The messages that have reached the Endpoint or are on their way to it.
Arrived == DOMAIN jobs \cup {m.properties.messageId : m \in exchange}

\* Another service publishes a message while the Endpoint's queue is bound
\* (the broker discards one that is not mandatory and cannot be routed).
Publish(n, replyTo, content) ==
  /\ epState = "bootstrapped"
  /\ n \notin Arrived
  /\ \A j \in 1..(n - 1) : j \in Arrived
  /\ exchange' = exchange \cup {PublishedBy(n, replyTo, content)}
  /\ UNCHANGED << reqCreated, reqOptions, isReady, calls, outcome, settleCount,
                  nextId, timers, armed, listeners, epState, epHandler, jobs, replies >>
  /\ UNCHANGED lifecycleVars

NextEndpoint ==
  \/ EndpointOpen
  \/ \E ok \in BOOLEAN : EndpointBootstrap(ok)
  \/ \E n \in 1..MaxMessages, rt \in ReplyTargets, c \in Contents : Publish(n, rt, c)
  \/ \E m \in exchange, b \in {Returns(StrA), Throws(ErrorBoom), Never} : HandleMessage(m, b)
  \/ \E id \in DOMAIN jobs, ok \in BOOLEAN : ReplySend(id, ok)

SpecEndpoint == Init /\ [][NextEndpoint]_vars

\* ------------------------------------------------------- claims: Endpoint
\* The replies sent for a message.
RepliesTo(id) == {r \in replies : r.properties.correlationId = id}

\* C29: for every message whose body decoded, the handler was invoked once
\* and no ack or nack was sent. When the message declared no reply-to, no
\* worker was acquired and nothing was sent. When it declared one, a reply
\* is sent only after the handler settled, through a pool worker, at most
\* once, to the reply-to target and with the request's correlation id; it
\* has been sent exactly when sendToQueue went through.
C29_ReplyIffReplyTo ==
  \A id \in DOMAIN jobs : jobs[id].stage # "dropped" =>
    /\ jobs[id].invoked = 1
    /\ jobs[id].acks = 0 /\ jobs[id].nacks = 0
    /\ jobs[id].sends <= 1
    /\ jobs[id].sends = Cardinality(RepliesTo(id))
    /\ jobs[id].properties.replyTo = "" =>
         /\ jobs[id].stage = "done"
         /\ jobs[id].sends = 0
         /\ << "reply", id >> \notin DOMAIN workers
    /\ jobs[id].properties.replyTo # "" =>
         /\ jobs[id].stage \in {"handler", "acquire", "replied", "sendfailed"}
         /\ jobs[id].stage = "handler" <=> ~wrapHandler(epHandler, jobs[id].behaviour).settles
         /\ jobs[id].sends = 1 <=> jobs[id].stage = "replied"
         /\ << "reply", id >> \in DOMAIN workers
              <=> jobs[id].stage \in {"replied", "sendfailed"}
         /\ \A r \in RepliesTo(id) :
              /\ r.fields.routingKey = jobs[id].properties.replyTo
              /\ r.content = JSONStringify(jobs[id].result)

\* C29 witness: a request has been answered through a worker and an
\* emission has been handled without a reply.
C29_Witness ==
  \E i, j \in DOMAIN jobs :
    /\ jobs[i].properties.replyTo # "" /\ jobs[i].stage = "replied"
    /\ workers[<< "reply", i >>].state = "released"
    /\ jobs[j].properties.replyTo = "" /\ jobs[j].stage = "done" /\ jobs[j].invoked = 1

\* C30: a message whose body did not decode was dropped: the handler was
\* not invoked, nothing was sent whether or not a reply-to was declared, no
\* worker was acquired and no error left handleMessage; and only such a
\* message is dropped.
C30_UndecodableDropped ==
  \A id \in DOMAIN jobs :
    /\ jobs[id].stage = "dropped" <=> jobs[id].content = MalformedContent
    /\ jobs[id].stage = "dropped" =>
         /\ jobs[id].invoked = 0
         /\ jobs[id].sends = 0
         /\ RepliesTo(id) = {}
         /\ << "reply", id >> \notin DOMAIN workers
         /\ jobs[id].acks = 0 /\ jobs[id].nacks = 0

\* C30 witness: after dropping a request whose body did not decode, the
\* Endpoint has answered the next request.
C30_Witness ==
  /\ {1, 2} \subseteq DOMAIN jobs
  /\ jobs[1].stage = "dropped" /\ jobs[1].properties.replyTo # ""
  /\ jobs[2].stage = "replied"
  /\ epState = "bootstrapped"

\* ------------------------------------------------ claims: bootstrap order
\* The steps of assertConsumerChannel an attempt has reached.
SettingUpChannel == {"createChannel", "bindQueue", "consume", "assign", "done"}

\* C31: in every bootstrap of an Endpoint or Listener the worker is acquired,
\* the queue asserted and the worker handed back before the dedicated channel
\* is opened, the queue bound and consumption started: an attempt that is
\* setting up its channel has asserted its queue and holds no pool worker, a
\* channel is bound only once it is open, consumption starts only on a bound
\* queue, and a message is handled only after an attempt asserted, bound and
\* consumed.
C31_BootstrapStepOrder ==
  /\ \A a \in 1..Len(attempts) :
       /\ (attempts[a].pc \in SettingUpChannel \/ attempts[a].channels > 0) =>
            /\ attempts[a].asserts = 1
            /\ <<"bootstrap", a>> \in DOMAIN workers
            /\ workers[<<"bootstrap", a>>].state = "released"
       /\ attempts[a].binds > 0 => attempts[a].channels = 1
       /\ attempts[a].consumes > 0 => attempts[a].binds = 1
       /\ attempts[a].pc = "assertQueue" =>
            /\ attempts[a].channels = 0
            /\ workers[<<"bootstrap", a>>].state = "held"
       /\ attempts[a].pc = "acquire" => attempts[a].asserts = 0
  /\ \A d \in DeliveryIds : deliveries[d].stage # "none" =>
       \E a \in 1..Len(attempts) :
         /\ attempts[a].asserts = 1
         /\ attempts[a].binds = 1
         /\ attempts[a].consumes = 1

\* A Listener handled a message the broker delivered after the bootstrap had
\* asserted the queue, handed the worker back, bound the queue and started
\* consuming.
C31_Witness ==
  /\ \E d \in DeliveryIds : deliveries[d].stage # "none"
  /\ Cur > 0
  /\ attempts[Cur].consumes = 1
  /\ attempts[Cur].binds = 1
  /\ workers[<<"bootstrap", Cur>>].state = "released"

\* --------------------------------------------------- requester: bootstrap
\* One Requester and two calls, made before or after its bootstrap settles,
\* with no Endpoint to answer: timers fire and the broker returns the
\* mandatory requests.
NextRequester ==
  \/ \E o \in RequesterOptionBlocks : NewRequester(o)
  \/ \E ok \in BOOLEAN : RequesterBootstrap(ok)
  \/ \E k \in {1, 2}, a \in Args, o \in CallOptionBlocks : Send(k, a, o)
  \/ \E k \in {1, 2}, ts \in Timestamps : SendResume(k, ts)
  \/ \E id \in DOMAIN armed : TimerFire(id)
  \/ \E m \in exchange : ReturnNotify(m)

SpecRequester == Init /\ [][NextRequester]_vars

\* C32: a call issued before the Requester is Ready publishes nothing, starts
\* no timer and registers no listener until the bootstrap of the publish
\* channel has completed; when that bootstrap failed, every call rejects with
\* the bootstrap error, and nothing is published and no timer or listener is
\* left behind.
C32_CallsWaitForBootstrap ==
  /\ isReady # "resolved" =>
       /\ exchange = {}
       /\ timers = {}
       /\ DOMAIN armed = {}
       /\ listeners = {}
       /\ nextId = 1
  /\ \A k \in CallIds : calls[k].pc = "awaitReady" =>
       /\ calls[k].messageId = 0
       /\ outcome[k] = Pending
  /\ isReady \in {"none", "pending"} =>
       \A k \in CallIds : calls[k].pc \in {"idle", "awaitReady"}
  /\ isReady = "rejected" =>
       \A k \in CallIds :
         /\ calls[k].pc \in {"idle", "awaitReady", "failed"}
         /\ calls[k].pc = "failed" =>
              /\ outcome[k] = [status |-> "rejected", value |-> BootstrapError,
                               by |-> "bootstrap"]
              /\ settleCount[k] = 1

\* The bootstrap failed and two calls, one with a timeout and one without,
\* were rejected with its error; nothing was published.
C32_Witness ==
  /\ isReady = "rejected"
  /\ calls[1].pc = "failed"
  /\ calls[2].pc = "failed"
  /\ calls[1].opts.timeout # 0
  /\ outcome[2].value = BootstrapError
  /\ exchange = {}

\* ------------------------------------------------------- channels closing
ConsumerDiedError ==
  JsVal("Error", "ConsumerDiedError",
        "Consumer died; this is most likely due to the AMQP connection dying")
ReplyConsumerDiedError ==
  JsVal("Error", "ReplyConsumerDiedError",
        "Reply consumer died; this is most likely due to the AMQP connection dying")

\* The channels that are open: the dedicated channels the bootstrap attempts
\* created and the channels assertPublishChannel created, less those that
\* have closed.
ChannelsCreated ==
  {<<"consumer", a>> : a \in {b \in 1..Len(attempts) : attempts[b].channels = 1}}
    \cup {<<"reply", c>> : c \in DOMAIN chans}
OpenChannels == ChannelsCreated \ {closed[e].chan : e \in DOMAIN closed}

\* The error the "close" handler of channel c throws.
DiedError(c) == IF c[1] = "consumer" THEN ConsumerDiedError ELSE ReplyConsumerDiedError

\* A "close" handler that throws whatever the client is doing.
closeHandlerThrowsAlways(warm) == TRUE

\* channel.on("close", ...): if (!this.temit.warmClose) throw ...
closeHandlerThrows(warm) == ~warm

\* Channel c closes and its "close" handler runs: with the connection that
\* close() closed, or at any moment before because the broker or the network
\* ended it. The broker stops delivering to the consumer of the channel.
ChannelClose(c) ==
  /\ c \in OpenChannels
  /\ connection \in {"open", "closed"}
  /\ closed' = Append(closed,
       [chan |-> c, warm |-> warmClose, byClose |-> (connection = "closed"),
        raised |-> IF closeHandlerThrows(warmClose) THEN DiedError(c) ELSE Null])
  /\ consumeMode' = IF c[1] = "consumer" /\ attempts[c[2]].consumes = 1
                      THEN "none" ELSE consumeMode
  /\ UNCHANGED << consumer, bootstrapped, attempts, opens, channel, deliveries >>
  /\ UNCHANGED << requesters, publishChans, chans, replyFaults >>
  /\ UNCHANGED << requestVars, clientVars, poolVars, emitterVars >>

\* A connected client with one consumer, opened and opened again after a
\* failure, and one Requester, closed at some moment; channels close with the
\* connection or before.
NextTeardown ==
  \/ ClientClose
  \/ ClientCloseDone
  \/ \E i \in {1, 2} : Open(i)
  \/ Bootstrap
  \/ Len(requesters) = 0 /\ RequesterConstruct(RequesterEvent)
  \/ \E ok \in BOOLEAN : AssertPublishChannelCreate(1, ok)
  \/ \E ok \in BOOLEAN : AssertPublishChannelConsume(1, ok)
  \/ \E c \in OpenChannels : ChannelClose(c)

SpecTeardown == InitClose /\ [][NextTeardown]_vars

\* C33: the "close" event of a consumer channel or of a reply channel raises
\* ConsumerDiedError / ReplyConsumerDiedError exactly when the client is not
\* tearing down at that moment; close() sets warmClose before the connection
\* is closed and warmClose is never cleared, so a channel that closes with
\* the connection close() closed raises nothing.
C33_FatalIffNotTearingDown ==
  /\ [](\A e \in DOMAIN closed :
          /\ closed[e].raised # Null <=> ~closed[e].warm
          /\ closed[e].raised \in {Null, DiedError(closed[e].chan)}
          /\ closed[e].byClose => closed[e].raised = Null)
  /\ [](closing # "none" => warmClose)
  /\ [](connection = "closed" => warmClose)
  /\ [][warmClose => warmClose']_vars

\* The consumer's channel closed while the client was running and raised
\* ConsumerDiedError; the reply channel closed with the connection that
\* close() closed and raised nothing.
C33_Witness ==
  \E e, f \in DOMAIN closed :
    /\ closed[e].chan[1] = "consumer"
    /\ closed[e].raised = ConsumerDiedError
    /\ closed[f].chan[1] = "reply"
    /\ closed[f].byClose
    /\ closed[f].raised = Null

\* ------------------------------------------------ calls while closing
\* One Requester and two calls on a connected client that is closed at some
\* moment, with no Endpoint to answer.
NextCallClose ==
  \/ NewRequester(NoOptions)
  \/ \E ok \in BOOLEAN : RequesterBootstrap(ok)
  \/ \E k \in {1, 2}, o \in CallOptionBlocks : Send(k, StrA, o)
  \/ \E k \in {1, 2}, ts \in Timestamps : SendResume(k, ts)
  \/ \E id \in DOMAIN armed : TimerFire(id)
  \/ \E m \in exchange : ReturnNotify(m)
  \/ ClientClose
  \/ ClientCloseDone

\* The runtime runs every continuation that is ready, every armed timer
\* fires, and the broker answers every request made of it.
FairCallClose ==
  /\ WF_vars(\E ok \in BOOLEAN : RequesterBootstrap(ok))
  /\ WF_vars(\E k \in {1, 2}, ts \in Timestamps : SendResume(k, ts))
  /\ WF_vars(\E id \in DOMAIN armed : TimerFire(id))
  /\ WF_vars(\E m \in exchange : ReturnNotify(m))
  /\ WF_vars(ClientCloseDone)

SpecCallClose == Init /\ [][NextCallClose]_vars /\ FairCallClose

\* C34: every Requester call issued with a timeout > 0 eventually settles,
\* also when close() runs while the call is pending.
C34_TimedCallSettles ==
  \A k \in {1, 2} :
    (calls[k].pc \in {"awaitReady", "waiting"} /\ calls[k].opts.timeout # 0)
      ~> Settled(k)

\* -------------------------------------------------- claims: send is atomic
\* C35: send() publishes, starts the timer and registers the data, timeout
\* and return listeners of the message id in one step, so no signal for an
\* id is emitted before its listeners are there: a published call that is
\* not settled has all three listeners registered and, with a timeout, its
\* timer armed; a settled call has none left; and no signal arrives for an
\* id that no call has published.
C35_ListenersBeforeSignals ==
  /\ \A k \in CallIds : calls[k].pc = "waiting" =>
       IF Settled(k)
         THEN ListenersOf(IdOf(k)) = {}
         ELSE /\ ListenersOf(IdOf(k)) = { <<s, IdOf(k)>> : s \in Signals }
              /\ calls[k].opts.timeout # 0 => IdOf(k) \in DOMAIN armed
  /\ \A m \in exchange : \E k \in CallIds :
       calls[k].pc = "waiting" /\ IdOf(k) = m.properties.messageId
  /\ \A id \in DOMAIN jobs \cup DOMAIN armed : \E k \in CallIds :
       calls[k].pc = "waiting" /\ IdOf(k) = id

\* The reply to a call has arrived while the call is pending, and the data
\* listener of its id is registered.
C35_Witness ==
  \E k \in CallIds, m \in replies :
    /\ calls[k].pc = "waiting"
    /\ ~Settled(k)
    /\ dataSignalId(m) = IdOf(k)
    /\ <<"data", IdOf(k)>> \in listeners

\* ------------------------------------------- claims: failed bootstraps
\* The dedicated channels of the consumer that are open.
ConsumerChannels == {c \in OpenChannels : c[1] = "consumer"}

\* C36: after a bootstrap attempt failed, at whatever step, no dedicated
\* channel and no consumption of that attempt is left, so that once a retry
\* has succeeded the consumer has the one channel of that attempt and no
\* other.
C36_FailedAttemptLeavesNothing ==
  /\ \A a \in 1..Len(attempts) : attempts[a].pc = "failed" =>
       /\ <<"consumer", a>> \notin OpenChannels
       /\ attempts[a].consumes = 0
  /\ (Cur > 0 /\ attempts[Cur].pc = "done") =>
       ConsumerChannels \subseteq {<<"consumer", Cur>>}

\* ------------------------------------ claims: delivery during bootstrap
\* C37: for a buffered Listener the ack of a delivered message, or its nack
\* when the body does not decode, is never skipped, also when the message is
\* delivered between consume-ok and the assignment of this.channel.
C37_AckNeverSkipped ==
  consumer.kind = "listener" /\ consumer.buffer =>
    \A d \in Finished :
      IF deliveries[d].decodes
        THEN deliveries[d].acks = 1
        ELSE deliveries[d].nacks = 1

\* ------------------------------------------------------- pool: contention
\* The other consumers of the client whose bootstrap holds a worker for its
\* assertQueue: one short of the pool's capacity.
Peers == 1..(PoolMax - 1)

\* bootstrap() of another Endpoint or Listener of the client:
\* worker.assertQueue settles and the worker is released, or destroyed.
\* These consumers are numbered in the order their assertQueue settles.
PeerAssertQueue(n, ok) ==
  /\ <<"peer", n>> \in Held
  /\ \A m \in Peers : m < n => <<"peer", m>> \notin Held
  /\ ok => connection = "open"
  /\ workers' = HandBack(workers, <<"peer", n>>, ok)
  /\ UNCHANGED poolCreating
  /\ UNCHANGED << requestVars, consumerVars, clientVars, emitterVars, dispatchVars >>

\* A connected client whose pool is one worker short of full, with an
\* Endpoint that is opened and two emissions, delayed or not. The assertQueue
\* of the other consumers goes through, except that the first may throw.
InitContention ==
  /\ RequestInit
  /\ epHandler = FunctionHandler
  /\ ConsumerInit(EndpointParseOptions)
  /\ ClientConnected
  /\ workers = [w \in {<<"peer", n>> : n \in Peers} |->
                  [state |-> "held", released |-> 0, destroyed |-> 0]]
  /\ poolCreating = FALSE
  /\ EmitterInit
  /\ DispatchInit

NextContention ==
  \/ \E n \in Peers : PeerAssertQueue(n, TRUE)
  \/ PeerAssertQueue(1, FALSE)
  \/ Open(1)
  \/ Bootstrap
  \/ \E i \in {1, 2}, o \in {NoOptions, [delay |-> Str("1s")]} :
       EmitterSend(i, StrA, o, 1000)
  \/ Emission

\* The runtime runs every continuation that is ready, and the broker and the
\* pool answer every request made of them.
FairContention ==
  /\ WF_vars(\E n \in Peers : PeerAssertQueue(n, TRUE))
  /\ WF_vars(Bootstrap)
  /\ WF_vars(Emission)

SpecContention == InitContention /\ [][NextContention]_vars /\ FairContention

\* The acquires the operations of this client make.
PoolUsers ==
  {<<"bootstrap", 1>>, <<"demit", 1>>, <<"demit", 2>>, <<"send", 1>>, <<"send", 2>>}

\* C38: no operation acquires a worker while it holds one: an emission that
\* waits for, or was handed, the worker for sending has handed back the
\* worker of its bucket-queue assertion, and a bootstrap or an emission
\* holds at most one worker; the pool hands out no more than its capacity;
\* and every acquire made while the connection is there is eventually
\* served.
C38_PoolServesEveryAcquire ==
  /\ [](\A i \in EmitIds :
          /\ emits[i].pc \in {"acquireSend", "done", "failed"} =>
               <<"demit", i>> \notin Held
          /\ ~(<<"demit", i>> \in Held /\ <<"send", i>> \in Held))
  /\ [](Cardinality(Held) <= PoolMax)
  /\ \A w \in PoolUsers : (w \in Waiters) ~> (w \notin Waiters)

\* The pool is full, with the worker of an emission's bucket-queue assertion
\* among those out, while the bootstrap and the other emission wait for a
\* worker.
C38_Witness ==
  /\ Cardinality(Held) = PoolMax
  /\ <<"demit", 1>> \in Held
  /\ <<"bootstrap", 1>> \in Waiters
  /\ Waiters \cap {<<"demit", 2>>, <<"send", 2>>} # {}

\* ---------------------------------------------- Emitter: past schedules
\* Two emissions of an Emitter created without options, delayed by a
\* duration or scheduled for an instant before, at or after the moment of
\* sending.
NextSchedule ==
  \/ \E i \in {1, 2}, now \in EmitTimes,
        o \in {[delay |-> Str("1s")], [delay |-> DateAt(5000)],
               [delay |-> DateAt(1500)], [delay |-> DateAt(500)]} :
       EmitterSend(i, StrA, o, now)
  \/ Emission

SpecSchedule == InitEmitter /\ [][NextSchedule]_vars

\* C39: for every delayed or scheduled emission the time-to-live of the
\* bucket queue and the expiration of the message are not negative, and the
\* expiry of the bucket queue is greater than that time-to-live.
C39_TtlNeverNegative ==
  \A i \in EmitIds : (emits[i].pc # "idle" /\ emits[i].demit.needed) =>
    /\ emits[i].demit.expiration >= 0
    /\ "messageTtl" \in DOMAIN emits[i].demit.queueOpts =>
         emits[i].demit.queueOpts.messageTtl >= 0
    /\ "expiration" \in DOMAIN emits[i].message => emits[i].message.expiration >= 0
    /\ emits[i].demit.queueOpts.expires > emits[i].demit.expiration

\* --------------------------------------------- close without a connection
\* The runtime runs every continuation that is ready, and the broker answers
\* every request of a connection attempt, one way or the other.
FairClient ==
  /\ WF_vars(Connection)
  /\ WF_vars(ClientCloseDone)
  /\ WF_vars(Bootstrap)

SpecClientFair == InitClient /\ [][NextClient]_vars /\ FairClient

\* C40: close() terminates in whatever state of the client it is called:
\* before the connection is established or after the connection attempt has
\* failed, it still settles.
C40_CloseTerminates == (closing = "waiting") ~> (closing = "done")

====
